---- MODULE Spec2Model ----
(***************************************************************************)
(* A model of the decentnet peer-to-peer networking core:                  *)
(*   - the swarm driver (network/handler.rs, network/behaviour.rs): the    *)
(*     event handlers that maintain the Kademlia routing table and answer  *)
(*     the /decentnet/0.0.1 request-response protocol;                     *)
(*   - the wire codec of that protocol (network/protocol.rs);              *)
(*   - set-up (api/lib.rs, network/identity.rs): the bootstrap file, the   *)
(*     identity and the behaviour set of the swarm.                        *)
(*   - the timestamps of a manifest (manifest/src/zeronet/utils.rs).       *)
(*                                                                         *)
(* The event loop is single threaded: one swarm event is polled, its       *)
(* handler runs to completion (or panics), and the loop polls again.       *)
(* pc = "start"    start_listening has not run yet;                        *)
(* pc = "poll"     the loop waits for the next event;                      *)
(* pc = "handled"  a handler has just returned: event, kad_before and      *)
(*                 effects describe that iteration;                        *)
(* pc = "panicked" a handler has panicked (an unwrap on None / Err): the   *)
(*                 driver is gone, effects holds what it did before.       *)
(***************************************************************************)
EXTENDS Integers, Sequences, FiniteSets, TLC

VARIABLES
    server_mode,      \* NetworkConfig.server_mode
    relay_dial_mode,  \* NetworkConfig.relay_dial_mode
    local_discovery,  \* NetworkConfig.local_discovery
    boot_nodes,       \* NetworkConfig.boot_nodes : sequence of BootNode
    kademlia,         \* routing table: peer -> sequence of addresses (no duplicates)
    pc,               \* position of the event loop
    event,            \* the event of the current iteration
    kad_before,       \* the routing table when the current handler started
    effects,          \* calls the current handler made on the swarm, in order
    known_nodes,      \* result of the last get_known_nodes call
    listener_ids,     \* NetworkConfig.listener_ids : sequence of listener ids
    listeners,        \* the listeners the swarm holds open
    rendezvous_cookie,\* NetworkConfig.rendezvous_cookie : <<>> (None) or <<c>>
    swarm_calls,      \* calls the current handler made on the swarm itself
                      \* (listen_on, remove_listener, dial), in order
    stream,           \* codec: the substream a remote peer wrote: its bytes, the
                      \* message they were made from and how, request or response
    cpc,              \* codec: "idle" | "written" | "read"
    decoded,          \* codec: what read_request / read_response came to
    mdns,             \* behaviour.mdns : the Toggle and, when enabled, the
                      \* (peer, address) pairs mDNS currently holds discovered
    floodsub,         \* behaviour.floodsub : the peers of its partial view
    api_call,         \* the set-up function being called, with its arguments
    api_result        \* what that call returned, or that it panicked

vars == <<server_mode, relay_dial_mode, local_discovery, boot_nodes, kademlia,
          pc, event, kad_before, effects, known_nodes,
          listener_ids, listeners, rendezvous_cookie, swarm_calls,
          stream, cpc, decoded, mdns, floodsub, api_call, api_result>>

configVars == <<server_mode, relay_dial_mode, local_discovery, boot_nodes>>
driverVars == <<kademlia, pc, event, kad_before, effects, known_nodes>>
swarmVars  == <<listener_ids, listeners, rendezvous_cookie, swarm_calls>>
codecVars  == <<stream, cpc, decoded>>
mdnsVars   == <<mdns, floodsub>>
apiVars    == <<api_call, api_result>>

----------------------------------------------------------------------------
(* Bounds of the model.                                                    *)

\* most nodes and address strings, counted together, in a NetworkNodeRecord
\* received from a peer
MaxRecordSize == 3
\* most listen addresses in one identify info
MaxAddrs == 2
\* most NewListenAddr events the listeners report
MaxListenEvents == 2
\* most (peer, address) pairs in the registrations of one Discovered event
MaxDiscovered == 2
\* lines of a bootstrap file
MaxLines == 2
\* length of the byte sequences offered as private keys
MaxKeyLen == 3

\* the items the driver holds in the runs of every event together
MaxDriverSize == 2

----------------------------------------------------------------------------
(* Peer identifiers and multiaddresses.                                    *)

Peers == {1, 2, 3}

\* PeerId::to_base58: the textual form carried in NetworkNode.network_id
Base58 == <<"12D3KooWA", "12D3KooWB", "12D3KooWC">>

to_base58(p) == Base58[p]

\* a string that is no peer identifier
BadIdStr == "not-a-peer-id"

IsPeerIdStr(s) == \E p \in Peers : Base58[p] = s

\* PeerId::from_str, on a string that parses
PeerIdFromStr(s) == CHOOSE p \in Peers : Base58[p] = s

\* A Multiaddr is a sequence of protocol components.
Ip4(h) == [proto |-> "ip4", val |-> h]
P2p(p) == [proto |-> "p2p", val |-> p]
P2pCircuit == [proto |-> "p2p-circuit", val |-> 0]
Ip6(h) == [proto |-> "ip6", val |-> h]

Hosts == {1, 2, 8, 9}

HostStr(h) == CASE h = 1 -> "10.0.0.1"
                [] h = 2 -> "10.0.0.2"
                [] h = 8 -> "10.0.0.8"
                [] OTHER -> "10.0.0.9"

\* IPv6 hosts: 0 is the unspecified address
Hosts6 == {0, 6}

Host6Str(h) == IF h = 0 THEN "::" ELSE "2001:db8::6"

\* Multiaddr::with
With(addr, comp) == Append(addr, comp)

\* the addresses peers listen on and connect from
BaseAddrs == {<<Ip4(1)>>, <<Ip4(2)>>}

\* Multiaddr::to_string: "/ip4/10.0.0.1/p2p/12D3KooWA/p2p-circuit" is the
\* sequence of its segments
RECURSIVE AddrToString(_)
AddrToString(addr) ==
    IF addr = <<>> THEN <<>>
    ELSE LET c == Head(addr)
             seg == CASE c.proto = "ip4" -> <<"ip4", HostStr(c.val)>>
                      [] c.proto = "ip6" -> <<"ip6", Host6Str(c.val)>>
                      [] c.proto = "p2p" -> <<"p2p", to_base58(c.val)>>
                      [] OTHER -> <<"p2p-circuit">>
         IN seg \o AddrToString(Tail(addr))

\* Multiaddr::from_str succeeds
RECURSIVE IsAddrStr(_)
IsAddrStr(s) ==
    IF s = <<>> THEN TRUE
    ELSE CASE Head(s) = "ip4" ->
                 /\ Len(s) >= 2
                 /\ \E h \in Hosts : HostStr(h) = s[2]
                 /\ IsAddrStr(SubSeq(s, 3, Len(s)))
           [] Head(s) = "ip6" ->
                 /\ Len(s) >= 2
                 /\ \E h \in Hosts6 : Host6Str(h) = s[2]
                 /\ IsAddrStr(SubSeq(s, 3, Len(s)))
           [] Head(s) = "p2p" ->
                 /\ Len(s) >= 2
                 /\ IsPeerIdStr(s[2])
                 /\ IsAddrStr(SubSeq(s, 3, Len(s)))
           [] Head(s) = "p2p-circuit" -> IsAddrStr(Tail(s))
           [] OTHER -> FALSE

\* Multiaddr::from_str, on a string that parses
RECURSIVE AddrFromStr(_)
AddrFromStr(s) ==
    IF s = <<>> THEN <<>>
    ELSE CASE Head(s) = "ip4" ->
                 <<Ip4(CHOOSE h \in Hosts : HostStr(h) = s[2])>>
                     \o AddrFromStr(SubSeq(s, 3, Len(s)))
           [] Head(s) = "ip6" ->
                 <<Ip6(CHOOSE h \in Hosts6 : Host6Str(h) = s[2])>>
                     \o AddrFromStr(SubSeq(s, 3, Len(s)))
           [] Head(s) = "p2p" ->
                 <<P2p(PeerIdFromStr(s[2]))>> \o AddrFromStr(SubSeq(s, 3, Len(s)))
           [] OTHER -> <<P2pCircuit>> \o AddrFromStr(Tail(s))

\* a string that is no multiaddress
BadAddrStr == <<"ip4", "garbage">>

----------------------------------------------------------------------------
(* Configuration.                                                          *)

BootNode(p, a) == [network_id |-> p, multiaddr |-> a]

\* the boot node lists a node may be configured with: none (load_bootnodes
\* failed), one, or two
BootLists == { <<>>,
               <<BootNode(1, <<Ip4(9)>>)>>,
               <<BootNode(1, <<Ip4(9)>>), BootNode(2, <<Ip4(8)>>)>> }

\* the relayed address without the peer it leads to
get_relayed_addr_no_peer(boots, local_id) ==
    LET node == boots[1]
        relay_id == P2p(node.network_id)
    IN With(With(node.multiaddr, relay_id), P2pCircuit)

\* DecentNetworkBehaviour::get_relayed_addr, when there is a first boot node
get_relayed_addr(boots, local_id) ==
    LET node == boots[1]
        relay_id == P2p(node.network_id)
        addr == With(With(node.multiaddr, relay_id), P2pCircuit)
    IN With(addr, P2p(local_id))

----------------------------------------------------------------------------
(* Protocol messages (network/protocol.rs, network/mod.rs).                *)

\* NetworkNode: both fields are strings on the wire
NetworkNode(id, addrs) == [network_id |-> id, multiaddr |-> addrs]

\* DecentNetRequest / DecentNetResponse; record is the NetworkNodeRecord's
\* nodes, empty for the variants that carry none
Msg(kind, nodes) == [kind |-> kind, record |-> nodes]

Ping == Msg("Ping", <<>>)
GetNetworkNodes == Msg("GetNetworkNodes", <<>>)
SendNodeRecord(nodes) == Msg("SendNodeRecord", nodes)
Pong == Msg("Pong", <<>>)
Record(nodes) == Msg("Record", nodes)
GotNetworkRecord == Msg("GotNetworkRecord", <<>>)
NoMsg == Msg("None", <<>>)

----------------------------------------------------------------------------
(* Calls a handler makes on the swarm and its behaviours.                  *)

\* cookie: the cookie argument of a discover, <<>> for None
Effect(op, p, m) == [op |-> op, peer |-> p, msg |-> m, cookie |-> <<>>]

\* protocol.send_request(&peer, request)
SendRequestEff(p, m) == Effect("send_request", p, m)
\* protocol.send_response(channel, response), accepted by the channel
SendResponseEff(m) == Effect("send_response", 0, m)
\* rendezvous.discover(namespace, None, None, rendezvous_node)
DiscoverEff(p) == Effect("discover", p, NoMsg)
\* rendezvous.register(namespace, rendezvous_node, None)
RegisterEff(p) == Effect("register", p, NoMsg)

----------------------------------------------------------------------------
(* Events of the loop.                                                     *)

\* call_ok: the swarm accepts the fallible call the handler unwraps
\* (send_response on a channel that is still open, register with an
\* external address known)
Event(type, p, addrs, listener, m, ok) ==
    [type |-> type, peer |-> p, addrs |-> addrs, listener |-> listener,
     msg |-> m, call_ok |-> ok, listener_id |-> "none", cookie |-> 0,
     discovered |-> <<>>, num_established |-> 0]

NoEvent == Event("None", 0, <<>>, FALSE, NoMsg, FALSE)

----------------------------------------------------------------------------
(* The Kademlia routing table, as the handlers use it.                     *)

InSeq(x, s) == \E i \in 1..Len(s) : s[i] = x

SetOf(seq) == {seq[i] : i \in 1..Len(seq)}

\* add_address pushing the address whether or not the entry holds it
add_address_append(kad, p, a) == [kad EXCEPT ![p] = Append(@, a)]

\* kademlia.add_address(&peer, addr): adding a known address changes nothing
add_address(kad, p, a) ==
    IF InSeq(a, kad[p]) THEN kad ELSE [kad EXCEPT ![p] = Append(@, a)]

\* kademlia.remove_peer(&peer)
remove_peer(kad, p) == [kad EXCEPT ![p] = <<>>]

\* kademlia.kbuckets(): the peers that have an entry, in bucket order
KBucketOrder == <<1, 2, 3>>

HasEntry(kad, p) == kad[p] # <<>>

kbuckets(kad) ==
    LET Present(p) == HasEntry(kad, p) IN SelectSeq(KBucketOrder, Present)

\* utils::get_external_addrs: the addresses of an entry that a snapshot lists
get_external_addrs(addrs) == addrs

----------------------------------------------------------------------------
(* What a handler leaves behind: the routing table, the calls it made, and *)
(* whether it panicked on the way.                                         *)

Out(kad, effs, panicked) == [kad |-> kad, effects |-> effs, panicked |-> panicked]

Panic(st) == [st EXCEPT !.panicked = TRUE]

\* send_response(channel, response).unwrap(): Err when the channel is closed
Respond(st, m, ok) ==
    IF ok THEN Out(st.kad, Append(st.effects, SendResponseEff(m)), FALSE)
    ELSE Panic(st)

----------------------------------------------------------------------------
(* DecentNetworkBehaviour::load_node_record.                               *)

\* the inner loop over one node's parsed addresses
RECURSIVE LoadAddrs(_, _, _, _, _)
LoadAddrs(network_id, multiaddrs, st, relay, boots) ==
    IF multiaddrs = <<>> \/ st.panicked THEN st
    ELSE IF relay /\ boots = <<>> THEN Panic(st)
    ELSE LET addr == IF relay THEN get_relayed_addr(boots, network_id)
                     ELSE Head(multiaddrs)
             st1 == Out(add_address(st.kad, network_id, addr),
                        Append(st.effects, SendRequestEff(network_id, Ping)),
                        FALSE)
         IN LoadAddrs(network_id, Tail(multiaddrs), st1, relay, boots)

\* the nodes are parsed lazily, one node at a time as the loop reaches it
RECURSIVE load_node_record(_, _, _, _)
load_node_record(nodes, st, relay, boots) ==
    IF nodes = <<>> \/ st.panicked THEN st
    ELSE LET node == Head(nodes)
             parses == /\ IsPeerIdStr(node.network_id)
                       /\ \A i \in 1..Len(node.multiaddr) : IsAddrStr(node.multiaddr[i])
         IN IF ~parses THEN Panic(st)
            ELSE LET network_id == PeerIdFromStr(node.network_id)
                     multiaddrs == [i \in 1..Len(node.multiaddr) |->
                                        AddrFromStr(node.multiaddr[i])]
                 IN load_node_record(Tail(nodes),
                        LoadAddrs(network_id, multiaddrs, st, relay, boots),
                        relay, boots)

----------------------------------------------------------------------------
(* Snapshots of the routing table.                                         *)

BootNodeIds(boots) == [i \in 1..Len(boots) |-> boots[i].network_id]

BootNodeIdStrs(boots) == [i \in 1..Len(boots) |-> to_base58(boots[i].network_id)]

\* get_network_record with the requester test left out of the filter
get_network_record_with_requester(requester, kad, boots) ==
    LET boot_node_ids == BootNodeIdStrs(boots)
        NotBoot(p) == ~InSeq(to_base58(p), boot_node_ids)
        kept == SelectSeq(kbuckets(kad), NotBoot)
        AddrStrs(p) == LET ext == get_external_addrs(kad[p])
                       IN [j \in 1..Len(ext) |-> AddrToString(ext[j])]
    IN [panicked |-> requester = <<>> /\ \E p \in Peers : HasEntry(kad, p) /\ NotBoot(p),
        nodes |-> [i \in 1..Len(kept) |->
                      NetworkNode(to_base58(kept[i]), AddrStrs(kept[i]))]]

\* get_network_record panicking on a requester that has no non-boot entry
get_network_record_panic_not_found(requester, kad, boots) ==
    LET boot_node_ids == BootNodeIdStrs(boots)
        NotBoot(p) == ~InSeq(to_base58(p), boot_node_ids)
        Keep(p) == /\ NotBoot(p)
                   /\ requester # <<>>
                   /\ to_base58(requester[1]) # to_base58(p)
        kept == SelectSeq(kbuckets(kad), Keep)
        AddrStrs(p) == LET ext == get_external_addrs(kad[p])
                       IN [j \in 1..Len(ext) |-> AddrToString(ext[j])]
    IN [panicked |-> \/ requester = <<>> /\ \E p \in Peers : HasEntry(kad, p) /\ NotBoot(p)
                     \/ requester # <<>> /\ ~(HasEntry(kad, requester[1]) /\ NotBoot(requester[1])),
        nodes |-> [i \in 1..Len(kept) |->
                      NetworkNode(to_base58(kept[i]), AddrStrs(kept[i]))]]

\* DecentNetworkBehaviour::get_network_record; requester is <<>> (None) or
\* <<q>> (Some(q)).  [panicked, nodes]
get_network_record(requester, kad, boots) ==
    LET boot_node_ids == BootNodeIdStrs(boots)
        NotBoot(p) == ~InSeq(to_base58(p), boot_node_ids)
        Keep(p) == /\ NotBoot(p)
                   /\ requester # <<>>
                   /\ to_base58(requester[1]) # to_base58(p)
        kept == SelectSeq(kbuckets(kad), Keep)
        AddrStrs(p) == LET ext == get_external_addrs(kad[p])
                       IN [j \in 1..Len(ext) |-> AddrToString(ext[j])]
    IN [panicked |-> requester = <<>> /\ \E p \in Peers : HasEntry(kad, p) /\ NotBoot(p),
        nodes |-> [i \in 1..Len(kept) |->
                      NetworkNode(to_base58(kept[i]), AddrStrs(kept[i]))]]

\* get_known_nodes comparing against the first boot node only
get_known_nodes_first_boot_only(kad, boots) ==
    LET NotBoot(p) == boots = <<>> \/ p # boots[1].network_id
        kept == SelectSeq(kbuckets(kad), NotBoot)
    IN [i \in 1..Len(kept) |-> <<kept[i], get_external_addrs(kad[kept[i]])>>]

\* Network::get_known_nodes
get_known_nodes(kad, boots) ==
    LET boot_node_ids == BootNodeIds(boots)
        NotBoot(p) == ~InSeq(p, boot_node_ids)
        kept == SelectSeq(kbuckets(kad), NotBoot)
    IN [i \in 1..Len(kept) |-> <<kept[i], get_external_addrs(kad[kept[i]])>>]

----------------------------------------------------------------------------
(* The request-response handlers.                                          *)

\* handle_request_msg answering a Ping with a Pong and a Ping of its own
handle_request_msg_ping_back(requester_id, request, ok, kad, relay, boots) ==
    LET st0 == Out(kad, <<>>, FALSE) IN
    CASE request.kind = "Ping" ->
            Respond(Out(kad, <<SendRequestEff(requester_id, Ping)>>, FALSE), Pong, ok)
      [] request.kind = "GetNetworkNodes" ->
            LET rec == get_network_record(<<requester_id>>, kad, boots)
            IN IF rec.panicked THEN Panic(st0)
               ELSE Respond(st0, Record(rec.nodes), ok)
      [] OTHER ->
            LET st == load_node_record(request.record, st0, relay, boots)
            IN IF st.panicked THEN st ELSE Respond(st, GotNetworkRecord, ok)

\* DecentNetworkBehaviour::handle_request_msg
handle_request_msg(requester_id, request, ok, kad, relay, boots) ==
    LET st0 == Out(kad, <<>>, FALSE) IN
    CASE request.kind = "Ping" -> Respond(st0, Pong, ok)
      [] request.kind = "GetNetworkNodes" ->
            LET rec == get_network_record(<<requester_id>>, kad, boots)
            IN IF rec.panicked THEN Panic(st0)
               ELSE Respond(st0, Record(rec.nodes), ok)
      [] OTHER ->
            LET st == load_node_record(request.record, st0, relay, boots)
            IN IF st.panicked THEN st ELSE Respond(st, GotNetworkRecord, ok)

\* handle_response_msg merging a Record without the relay rewrite
handle_response_msg_raw(response, kad, relay, boots) ==
    LET st0 == Out(kad, <<>>, FALSE) IN
    CASE response.kind = "Record" -> load_node_record(response.record, st0, FALSE, boots)
      [] OTHER -> st0

\* DecentNetworkBehaviour::handle_response_msg
handle_response_msg(response, kad, relay, boots) ==
    LET st0 == Out(kad, <<>>, FALSE) IN
    CASE response.kind = "Record" -> load_node_record(response.record, st0, relay, boots)
      [] OTHER -> st0

----------------------------------------------------------------------------
(* The swarm and behaviour event handlers.                                 *)

\* ConnectionEstablished applying the relayed rewrite on relay_dial_mode alone
handle_connection_established_rewrite(network_id, listener, send_back, kad, server, relay, boots) ==
    LET st0 == Out(kad, <<>>, FALSE) IN
    IF ~server
    THEN IF boots = <<>> THEN Panic(st0)
         ELSE Out(kad, <<DiscoverEff(boots[1].network_id)>>, FALSE)
    ELSE IF ~listener THEN st0
    ELSE IF relay
         THEN IF boots = <<>> THEN Panic(st0)
              ELSE Out(add_address(kad, network_id, get_relayed_addr(boots, network_id)),
                       <<>>, FALSE)
         ELSE Out(add_address(kad, network_id, send_back), <<>>, FALSE)

\* handle_swarm_event, SwarmEvent::ConnectionEstablished
handle_connection_established(network_id, listener, send_back, kad, server, relay, boots) ==
    LET st0 == Out(kad, <<>>, FALSE) IN
    IF ~server
    THEN IF boots = <<>> THEN Panic(st0)
         ELSE Out(kad, <<DiscoverEff(boots[1].network_id)>>, FALSE)
    ELSE IF ~listener THEN st0
    ELSE IF relay /\ ~server
         THEN IF boots = <<>> THEN Panic(st0)
              ELSE Out(add_address(kad, network_id, get_relayed_addr(boots, network_id)),
                       <<>>, FALSE)
         ELSE Out(add_address(kad, network_id, send_back), <<>>, FALSE)

\* ConnectionClosed handled as a log line only
handle_connection_closed_keep(network_id, kad) == Out(kad, <<>>, FALSE)

\* handle_swarm_event, SwarmEvent::ConnectionClosed
handle_connection_closed(network_id, kad) ==
    Out(remove_peer(kad, network_id), <<>>, FALSE)

\* the identify loop without the test for the boot node
RECURSIVE IdentifyAddrs_no_boot_test(_, _, _, _, _, _)
IdentifyAddrs_no_boot_test(network_id, addrs, st, server, relay, boots) ==
    IF addrs = <<>> \/ st.panicked THEN st
    ELSE IF ~server /\ relay /\ boots = <<>> THEN Panic(st)
    ELSE LET addr == IF ~server /\ relay
                     THEN get_relayed_addr(boots, network_id)
                     ELSE Head(addrs)
         IN IdentifyAddrs_no_boot_test(network_id, Tail(addrs),
                          [st EXCEPT !.kad = add_address(@, network_id, addr)],
                          server, relay, boots)

\* handle_identify_event: the loop over info.listen_addrs
RECURSIVE IdentifyAddrs(_, _, _, _, _, _)
IdentifyAddrs(network_id, addrs, st, server, relay, boots) ==
    IF addrs = <<>> \/ st.panicked THEN st
    ELSE IF ~server /\ relay /\ boots = <<>> THEN Panic(st)
    ELSE LET addr == IF ~server /\ relay
                     THEN IF network_id = boots[1].network_id
                          THEN Head(addrs)
                          ELSE get_relayed_addr(boots, network_id)
                     ELSE Head(addrs)
         IN IdentifyAddrs(network_id, Tail(addrs),
                          [st EXCEPT !.kad = add_address(@, network_id, addr)],
                          server, relay, boots)

\* handle_identify_event, IdentifyEvent::Received
handle_identify_event(network_id, listen_addrs, ok, kad, server, relay, boots) ==
    LET st == IdentifyAddrs(network_id, listen_addrs, Out(kad, <<>>, FALSE),
                            server, relay, boots)
    IN IF st.panicked \/ server THEN st
       ELSE IF boots = <<>> \/ ~ok THEN Panic(st)
       ELSE [st EXCEPT !.effects = Append(@, RegisterEff(boots[1].network_id))]

----------------------------------------------------------------------------
(* Listeners, dials and the rendezvous cookie.                             *)

\* *swarm.local_peer_id()
LocalPeer == 4

\* the ListenerId of each listen_on call of start_listening
ListenerIds == {"relayed", "ipv4", "ipv6"}

\* Ipv4Addr::UNSPECIFIED and Ipv6Addr::UNSPECIFIED
Ipv4Unspecified == <<Ip4(0)>>
Ipv6Unspecified == <<Ip6(0)>>

\* a call on the swarm itself
SwarmCall(op, id, addr) == [op |-> op, id |-> id, addr |-> addr]

\* Swarm::listen_on(swarm, addr), answered Ok(id)
ListenOnCall(id, addr) == SwarmCall("listen_on", id, addr)
\* swarm.remove_listener(id)
RemoveListenerCall(id) == SwarmCall("remove_listener", id, <<>>)
\* swarm.dial(addr), answered Ok(())
DialCall(addr) == SwarmCall("dial", "none", addr)

\* Multiaddr::ends_with
ends_with(addr, suffix) ==
    /\ Len(addr) >= Len(suffix)
    /\ SubSeq(addr, Len(addr) - Len(suffix) + 1, Len(addr)) = suffix

\* the relayed listening address built on the last boot node
get_relayed_listening_addr_last_boot(boots) ==
    LET relay_node == boots[Len(boots)]
    IN With(With(relay_node.multiaddr, P2p(relay_node.network_id)), P2pCircuit)

\* Network::get_relayed_listening_addr, when there is a first boot node
get_relayed_listening_addr(boots) ==
    LET relay_node == boots[1]
    IN With(With(relay_node.multiaddr, P2p(relay_node.network_id)), P2pCircuit)

\* what a handler leaves of the listeners: [panicked, listener_ids,
\* listeners, calls]
ListenOut(panicked, lids, ls, calls) ==
    [panicked |-> panicked, listener_ids |-> lids, listeners |-> ls, calls |-> calls]

\* Network::start_listening; relay_ok, v4_ok, v6_ok: the transport accepts
\* the listen_on call
start_listening(server, relay, boots, relay_ok, v4_ok, v6_ok) ==
    LET first == IF ~server /\ ~relay
                 THEN IF boots = <<>> \/ ~relay_ok
                      THEN ListenOut(TRUE, <<>>, {}, <<>>)
                      ELSE ListenOut(FALSE, <<>>, {"relayed"},
                                     <<ListenOnCall("relayed",
                                                    get_relayed_listening_addr(boots))>>)
                 ELSE ListenOut(FALSE, <<>>, {}, <<>>)
        v4 == IF v4_ok THEN <<ListenOnCall("ipv4", Ipv4Unspecified)>> ELSE <<>>
        v6 == IF v6_ok THEN <<ListenOnCall("ipv6", Ipv6Unspecified)>> ELSE <<>>
    IN IF first.panicked THEN first
       ELSE ListenOut(FALSE, <<>>,
                      first.listeners \cup (IF v4_ok THEN {"ipv4"} ELSE {})
                                      \cup (IF v6_ok THEN {"ipv6"} ELSE {}),
                      first.calls \o v4 \o v6)

\* NewListenAddr removing every recorded listener, the reporting one too
handle_new_listen_addr_remove_all(listener_id, address, lids, ls, relay, boots) ==
    LET ids == Append(lids, listener_id) IN
    IF relay THEN ListenOut(FALSE, ids, ls, <<>>)
    ELSE IF boots = <<>> THEN ListenOut(TRUE, ids, ls, <<>>)
    ELSE IF address = get_relayed_addr(boots, LocalPeer)
    THEN ListenOut(FALSE, ids, ls \ SetOf(ids),
                   [i \in 1..Len(ids) |-> RemoveListenerCall(ids[i])])
    ELSE ListenOut(FALSE, ids, ls, <<>>)

\* handle_swarm_event, SwarmEvent::NewListenAddr
handle_new_listen_addr(listener_id, address, lids, ls, relay, boots) ==
    LET ids == Append(lids, listener_id) IN
    IF relay THEN ListenOut(FALSE, ids, ls, <<>>)
    ELSE IF boots = <<>> THEN ListenOut(TRUE, ids, ls, <<>>)
    ELSE IF address = get_relayed_addr(boots, LocalPeer)
    THEN LET Other(id) == id # listener_id
             filtered == SelectSeq(ids, Other)
         IN ListenOut(FALSE, ids, ls \ SetOf(filtered),
                      [i \in 1..Len(filtered) |-> RemoveListenerCall(filtered[i])])
    ELSE ListenOut(FALSE, ids, ls, <<>>)

\* what a handler leaves of the dials: [panicked, kad, cookie, calls]
DialOut(panicked, kad, cookie, calls) ==
    [panicked |-> panicked, kad |-> kad, cookie |-> cookie, calls |-> calls]

\* a discovered registration, one per (peer, address) of its record
Registration(p, a) == [peer |-> p, address |-> a]

\* handle_rendezvous_event, Discovered: the loops over the registrations and
\* their addresses; ok_dials: how many more dials the swarm accepts
RECURSIVE DialDiscovered(_, _, _, _, _)
DialDiscovered(registrations, st, ok_dials, relay, boots) ==
    IF registrations = <<>> \/ st.panicked THEN st
    ELSE LET network_id == Head(registrations).peer
             address == Head(registrations).address
             p2p_suffix == P2p(network_id)
             address_with_p2p == IF ~ends_with(address, <<p2p_suffix>>)
                                 THEN With(address, p2p_suffix)
                                 ELSE address
         IN IF (relay /\ boots = <<>>) \/ ok_dials = 0
            THEN [st EXCEPT !.panicked = TRUE]
            ELSE LET addr == IF relay THEN get_relayed_addr(boots, network_id)
                             ELSE address_with_p2p
                 IN DialDiscovered(Tail(registrations),
                                   [st EXCEPT !.calls = Append(@, DialCall(addr))],
                                   ok_dials - 1, relay, boots)

\* Discovered handled without the test for server_mode
handle_rendezvous_discovered_any_mode(new_cookie, registrations, ok_dials, kad, cookie, server, relay, boots) ==
    DialDiscovered(registrations, DialOut(FALSE, kad, <<new_cookie>>, <<>>),
                   ok_dials, relay, boots)

\* handle_rendezvous_event, rendezvous::client::Event::Discovered
handle_rendezvous_discovered(new_cookie, registrations, ok_dials, kad, cookie, server, relay, boots) ==
    IF server THEN DialOut(FALSE, kad, cookie, <<>>)
    ELSE DialDiscovered(registrations, DialOut(FALSE, kad, <<new_cookie>>, <<>>),
                        ok_dials, relay, boots)

\* Network::load_nodes: the loop over one node's addresses
RECURSIVE LoadNodeAddrs(_, _, _, _)
LoadNodeAddrs(network_id, addrs, st, ok_dials) ==
    IF addrs = <<>> \/ st.panicked THEN [st |-> st, ok_dials |-> ok_dials]
    ELSE LET st1 == [st EXCEPT !.kad = add_address(@, network_id, Head(addrs))]
         IN IF ok_dials = 0
            THEN [st |-> [st1 EXCEPT !.panicked = TRUE], ok_dials |-> 0]
            ELSE LoadNodeAddrs(network_id, Tail(addrs),
                               [st1 EXCEPT !.calls = Append(@, DialCall(Head(addrs)))],
                               ok_dials - 1)

\* Network::load_nodes; nodes as get_known_nodes returns them
RECURSIVE LoadNodes(_, _, _)
LoadNodes(nodes, st, ok_dials) ==
    IF nodes = <<>> \/ st.panicked THEN st
    ELSE LET r == LoadNodeAddrs(Head(nodes)[1], Head(nodes)[2], st, ok_dials)
         IN LoadNodes(Tail(nodes), r.st, r.ok_dials)

load_nodes(nodes, ok_dials, kad, cookie) ==
    LoadNodes(nodes, DialOut(FALSE, kad, cookie, <<>>), ok_dials)

\* handle_ping_event dropping the peer whose ping failed
handle_ping_event_drop_failed(network_id, result_ok, kad, server, boots) ==
    Out(IF result_ok THEN kad ELSE remove_peer(kad, network_id),
        <<>>, result_ok /\ ~server /\ boots = <<>>)

\* handle_ping_event; result_ok: the ping result is Ok(duration)
handle_ping_event(network_id, result_ok, kad, server, boots) ==
    Out(kad, <<>>, result_ok /\ ~server /\ boots = <<>>)

\* OutgoingConnectionError dropping the boot node that could not be reached
handle_outgoing_connection_error_forget(network_id, transport_other, kad, server, boots) ==
    Out(IF boots # <<>> /\ network_id = boots[1].network_id
        THEN remove_peer(kad, network_id) ELSE kad,
        <<>>, network_id = 0 /\ transport_other /\ ~server /\ boots = <<>>)

\* handle_swarm_event, SwarmEvent::OutgoingConnectionError; network_id is 0
\* for None; transport_other: the error is DialError::Transport and lists an
\* address that failed with TransportError::Other of ErrorKind::Other
handle_outgoing_connection_error(network_id, transport_other, kad, server, boots) ==
    Out(kad, <<>>, network_id = 0 /\ transport_other /\ ~server /\ boots = <<>>)

----------------------------------------------------------------------------
(* Local discovery: mDNS and the floodsub partial view.                    *)

\* behaviour.mdns with the Toggle off: build_behaviour found server_mode set
\* or local_discovery unset, or Mdns::new failed
NoMdns == [enabled |-> FALSE, nodes |-> {}]

\* what handle_mdns_event leaves: [kad, floodsub, panicked]
MdnsOut(kad, view, panicked) == [kad |-> kad, floodsub |-> view, panicked |-> panicked]

\* Discovered adding to the partial view only
RECURSIVE handle_mdns_discovered_view_only(_, _, _, _)
handle_mdns_discovered_view_only(discovered_list, kad, view, local) ==
    IF discovered_list = <<>> THEN MdnsOut(kad, view, FALSE)
    ELSE LET network_id == Head(discovered_list).peer
         IN IF local
            THEN handle_mdns_discovered_view_only(Tail(discovered_list), kad,
                                                  view \cup {network_id}, local)
            ELSE handle_mdns_discovered_view_only(Tail(discovered_list), kad, view, local)

\* handle_mdns_event, MdnsEvent::Discovered: floodsub.add_node_to_partial_view
\* and kademlia.add_address for each pair, under config.local_discovery
RECURSIVE handle_mdns_discovered(_, _, _, _)
handle_mdns_discovered(discovered_list, kad, view, local) ==
    IF discovered_list = <<>> THEN MdnsOut(kad, view, FALSE)
    ELSE LET network_id == Head(discovered_list).peer
             addr == Head(discovered_list).address
         IN IF local
            THEN handle_mdns_discovered(Tail(discovered_list),
                                        add_address(kad, network_id, addr),
                                        view \cup {network_id}, local)
            ELSE handle_mdns_discovered(Tail(discovered_list), kad, view, local)

\* Expired removing every expired peer from the partial view
RECURSIVE handle_mdns_expired_remove_all(_, _, _, _)
handle_mdns_expired_remove_all(expired_list, kad, view, m) ==
    IF expired_list = <<>> THEN MdnsOut(kad, view, FALSE)
    ELSE handle_mdns_expired_remove_all(Tail(expired_list), kad,
                                        view \ {Head(expired_list).peer}, m)

\* handle_mdns_event, MdnsEvent::Expired: mdns.as_ref().unwrap() panics on a
\* Toggle that is off; floodsub.remove_node_from_partial_view for the peers
\* that mdns.discovered_nodes() no longer yields
RECURSIVE handle_mdns_expired(_, _, _, _)
handle_mdns_expired(expired_list, kad, view, m) ==
    IF expired_list = <<>> THEN MdnsOut(kad, view, FALSE)
    ELSE IF ~m.enabled THEN MdnsOut(kad, view, TRUE)
    ELSE LET network_id == Head(expired_list).peer
             discovered == \E n \in m.nodes : n.peer = network_id
         IN handle_mdns_expired(Tail(expired_list), kad,
                                IF ~discovered THEN view \ {network_id} ELSE view, m)

----------------------------------------------------------------------------
(* Set-up: the behaviour set, the bootstrap file and the identity          *)
(* (network/behaviour.rs, api/lib.rs, network/identity.rs).                *)

\* a call of a set-up function, and no call
ApiCall(op, args) == [op |-> op, args |-> args]

NoCall == ApiCall("none", <<>>)

\* a call returns a value, or panics
Return(v) == [panicked |-> FALSE, value |-> v]

Panicked == [panicked |-> TRUE, value |-> <<>>]

NoReturn == Return(<<>>)

\* RendezvousBehaviourImpl::rendezvous_behaviour
rendezvous_behaviour(is_server) == IF is_server THEN "server" ELSE "client"

\* build_behaviour keeping hole punching in server mode
build_behaviour_dcutr_always(server, local, relay, mdns_ok) ==
    IF ~server /\ relay = <<>> THEN Panicked
    ELSE Return([mdns |-> ~server /\ local /\ mdns_ok,
                 relay |-> IF server THEN "server" ELSE "client",
                 dcutr |-> TRUE,
                 rendezvous |-> rendezvous_behaviour(server)])

\* Network::build_behaviour; relay: <<>> (None) or the relay client handed
\* in; mdns_ok: Mdns::new succeeds.  relay.unwrap() panics on None.
build_behaviour(server, local, relay, mdns_ok) ==
    IF ~server /\ relay = <<>> THEN Panicked
    ELSE Return([mdns |-> ~server /\ local /\ mdns_ok,
                 relay |-> IF server THEN "server" ELSE "client",
                 dcutr |-> ~server,
                 rendezvous |-> rendezvous_behaviour(server)])

\* Network::build_swarm: with_relay_client and Some(relay_behaviour) in
\* server mode, None otherwise
build_swarm(server, local, mdns_ok) ==
    IF server
    THEN build_behaviour(server, local, <<"relay_client">>, mdns_ok)
    ELSE build_behaviour(server, local, <<>>, mdns_ok)

\* a line of the bootstrap file, split at ' ' and the second part at "<::>"
\* with the empty pieces dropped: parts is 1 when the line has no ' '
Line(parts, id, address) == [parts |-> parts, network_id |-> id, address |-> address]

\* load_bootnodes, the closure of filter_map over the lines; probes: what
\* ipv6_supported() returns for each line
RECURSIVE LoadLines(_, _, _)
LoadLines(lines, probes, nodes) ==
    IF lines = <<>> THEN Return(nodes)
    ELSE LET line == Head(lines)
             address == line.address
             not_ip6 == SelectSeq(address, LAMBDA x : Head(x) # "ip6")
             chosen == IF Head(probes)
                       THEN IF Len(not_ip6) >= 2 THEN not_ip6[2] ELSE address[1]
                       ELSE address[1]
         IN IF ~IsPeerIdStr(line.network_id) THEN Panicked
            ELSE IF line.parts = 1 THEN Panicked
            ELSE IF address = <<>> THEN LoadLines(Tail(lines), Tail(probes), nodes)
            ELSE IF ~IsAddrStr(chosen) THEN Panicked
            ELSE LoadLines(Tail(lines), Tail(probes),
                           Append(nodes, BootNode(PeerIdFromStr(line.network_id),
                                                  AddrFromStr(chosen))))

\* load_bootnodes; file_ok: read_to_string succeeds
load_bootnodes(file_ok, lines, probes) ==
    IF file_ok THEN LoadLines(lines, probes, <<>>) ELSE Return(<<>>)

\* an ed25519 secret key is KeyLen bytes (32 in the code, scaled with the
\* byte sequences of the model)
KeyLen == MaxKeyLen - 1

\* the public key of a secret key
PublicOf(secret) == [i \in 1..Len(secret) |-> 1 - secret[Len(secret) + 1 - i]]

\* ed25519::Keypair::from(SecretKey)
Keypair(secret) == [secret |-> secret, public |-> PublicOf(secret)]

\* NetworkId::from_public_key: the identifier embeds the public key
from_public_key(public) == <<"12D3KooW">> \o public

\* IdentityImpl::id for Network
Network_id(network) == from_public_key(network.keypair.public)

\* Network::from_bytes: try_from_bytes(bytes).unwrap() panics on bytes that
\* are no secret key
from_bytes(bytes) ==
    IF Len(bytes) # KeyLen THEN Panicked
    ELSE Return([keypair |-> Keypair(bytes)])

\* the identity made from another key than the one handed back
gen_random_id_with_private_other_key(private_key) ==
    <<private_key, [keypair |-> Keypair(PublicOf(private_key))]>>

\* IdentityImpl::gen_random_id_with_private, private_key being what
\* SecretKey::generate() drew
gen_random_id_with_private(private_key) ==
    <<private_key, [keypair |-> Keypair(private_key)]>>

----------------------------------------------------------------------------
(* The wire codec (network/protocol.rs).  A message is archived with rkyv: *)
(* every object is written after the objects it points to, the root enum   *)
(* is the last thing in the buffer, and a pointer is the distance from the *)
(* pointer's own position back to its target.  The model keeps that layout *)
(* with one cell per field: root = tag, offset and length of the node      *)
(* array; node = offset and length of network_id, offset and length of the *)
(* address array; address = offset and length of its string.  A string is  *)
(* a sequence of byte cells.                                               *)

RootFields == <<"tag", "nodes_offset", "nodes_len">>
NodeFields == <<"id_offset", "id_len", "addrs_offset", "addrs_len">>
StrFields == <<"offset", "len">>

RootSize == Len(RootFields)
NodeSize == Len(NodeFields)
StrSize == Len(StrFields)

\* io.take(2048)
ReadLimit == 2048

\* the discriminants of DecentNetRequest and DecentNetResponse
RequestKinds == <<"Ping", "GetNetworkNodes", "SendNodeRecord">>
ResponseKinds == <<"Pong", "Record", "GotNetworkRecord">>

KindsOf(side) == IF side = "request" THEN RequestKinds ELSE ResponseKinds

CarriesRecord(kind) == kind \in {"SendNodeRecord", "Record"}

\* the tag of a variant is its position in the enum, from 0
TagOf(side, kind) == (CHOOSE i \in 1..3 : KindsOf(side)[i] = kind) - 1

\* the strings of one node's multiaddr, each written where the buffer ends
RECURSIVE SerStrings(_, _, _)
SerStrings(buf, strs, poss) ==
    IF strs = <<>> THEN [buf |-> buf, pos |-> poss]
    ELSE SerStrings(buf \o Head(strs), Tail(strs), Append(poss, Len(buf) + 1))

\* one node's out-of-line data: network_id, the address strings, then the
\* array of the address entries
SerNode(buf, node) ==
    LET id_pos == Len(buf) + 1
        ss == SerStrings(buf \o node.network_id, node.multiaddr, <<>>)
        arr_pos == Len(ss.buf) + 1
        n == Len(node.multiaddr)
        entries == [c \in 1..(StrSize * n) |->
                       LET j == (c + 1) \div StrSize
                       IN IF c % StrSize = 1
                          THEN (arr_pos + c - 1) - ss.pos[j]
                          ELSE Len(node.multiaddr[j])]
    IN [buf |-> ss.buf \o entries,
        meta |-> [id_pos |-> id_pos, id_len |-> Len(node.network_id),
                  arr_pos |-> arr_pos, n |-> n]]

RECURSIVE SerNodes(_, _, _)
SerNodes(buf, nodes, metas) ==
    IF nodes = <<>> THEN [buf |-> buf, metas |-> metas]
    ELSE LET sn == SerNode(buf, Head(nodes))
         IN SerNodes(sn.buf, Tail(nodes), Append(metas, sn.meta))

\* From<DecentNetRequest> for Vec<u8> / From<DecentNetResponse> for Vec<u8>
Encode(side, m) ==
    IF ~CarriesRecord(m.kind) THEN <<TagOf(side, m.kind), 0, 0>>
    ELSE LET sn == SerNodes(<<>>, m.record, <<>>)
             arr_pos == Len(sn.buf) + 1
             k == Len(m.record)
             arr == [c \in 1..(NodeSize * k) |->
                        LET i == (c + NodeSize - 1) \div NodeSize
                            f == (c - 1) % NodeSize
                            meta == sn.metas[i]
                            at == arr_pos + c - 1
                        IN CASE f = 0 -> at - meta.id_pos
                             [] f = 1 -> meta.id_len
                             [] f = 2 -> at - meta.arr_pos
                             [] OTHER -> meta.n]
             root_pos == arr_pos + NodeSize * k
         IN sn.buf \o arr \o <<TagOf(side, m.kind), (root_pos + 1) - arr_pos, k>>

\* archived_root: the root is the last RootSize cells of the buffer
RootPos(buf) == Len(buf) - RootSize + 1

\* the cells pos .. pos + len - 1 lie inside the buffer
InBounds(buf, pos, len) == len = 0 \/ (pos >= 1 /\ pos + len - 1 <= Len(buf))

\* the position a pointer stored in cell `at` points to
Target(buf, at) == at - buf[at]

\* every read that deserializing the buffer makes stays inside the buffer,
\* and the tag is a discriminant of the enum
ValidArchive(side, buf) ==
    /\ Len(buf) >= RootSize
    /\ LET root == RootPos(buf) IN
       /\ buf[root] \in 0..2
       /\ CarriesRecord(KindsOf(side)[buf[root] + 1])
             => LET nodes == Target(buf, root + 1)
                    k == buf[root + 2]
                IN /\ InBounds(buf, nodes, NodeSize * k)
                   /\ \A i \in 1..k :
                        LET at == nodes + NodeSize * (i - 1)
                            addrs == Target(buf, at + 2)
                            n == buf[at + 3]
                        IN /\ InBounds(buf, Target(buf, at), buf[at + 1])
                           /\ InBounds(buf, addrs, StrSize * n)
                           /\ \A j \in 1..n :
                                LET sat == addrs + StrSize * (j - 1)
                                IN InBounds(buf, Target(buf, sat), buf[sat + 1])

\* the string a (offset, len) pair in cells at, at + 1 stands for
StringAt(buf, at) ==
    IF buf[at + 1] = 0 THEN <<>>
    ELSE SubSeq(buf, Target(buf, at), Target(buf, at) + buf[at + 1] - 1)

\* Decode reading every tag as a discriminant of DecentNetRequest
Decode_request_tags(side, buf) ==
    LET root == RootPos(buf)
        kind == RequestKinds[buf[root] + 1]
    IN IF ~CarriesRecord(kind) THEN Msg(kind, <<>>)
       ELSE LET nodes == Target(buf, root + 1)
                NodeAt(i) ==
                    LET at == nodes + NodeSize * (i - 1)
                        addrs == Target(buf, at + 2)
                    IN NetworkNode(StringAt(buf, at),
                                   [j \in 1..buf[at + 3] |->
                                        StringAt(buf, addrs + StrSize * (j - 1))])
            IN Msg(kind, [i \in 1..buf[root + 2] |-> NodeAt(i)])

\* archived.deserialize(&mut Infallible), on a buffer every read of which
\* stays in bounds
Decode(side, buf) ==
    LET root == RootPos(buf)
        kind == KindsOf(side)[buf[root] + 1]
    IN IF ~CarriesRecord(kind) THEN Msg(kind, <<>>)
       ELSE LET nodes == Target(buf, root + 1)
                NodeAt(i) ==
                    LET at == nodes + NodeSize * (i - 1)
                        addrs == Target(buf, at + 2)
                    IN NetworkNode(StringAt(buf, at),
                                   [j \in 1..buf[at + 3] |->
                                        StringAt(buf, addrs + StrSize * (j - 1))])
            IN Msg(kind, [i \in 1..buf[root + 2] |-> NodeAt(i)])

\* what a read comes to
Result(kind, m) == [kind |-> kind, msg |-> m]

NoResult == Result("None", NoMsg)

\* io.take(2048).read_to_end(&mut buf)
Take(bytes, limit) == IF Len(bytes) <= limit THEN bytes ELSE SubSeq(bytes, 1, limit)

\* a message that reading outside the buffer may come to
GarbageMsg(side) ==
    Msg(KindsOf(side)[IF side = "request" THEN 3 ELSE 2], <<NetworkNode(<<0>>, <<>>)>>)

\* read_request / read_response: a transport error is returned as Err; any
\* buffer is handed to archived_root unchecked, so a buffer that is no
\* archive is read out of bounds or with an invalid discriminant, which is
\* undefined behaviour: the process dies or a message of arbitrary content
\* comes out, but never an Err
read(side, bytes, io_fails) ==
    LET buf == Take(bytes, ReadLimit) IN
    IF io_fails THEN {Result("IoError", NoMsg)}
    ELSE IF ValidArchive(side, buf) THEN {Result("Ok", Decode(side, buf))}
    ELSE {Result("Crash", NoMsg), Result("Ok", GarbageMsg(side)),
          Result("Ok", Msg(KindsOf(side)[1], <<>>))}

\* a substream: origin is "encoded" for the bytes write_request /
\* write_response produce from msg, else what was done to them
Stream(bytes, m, side, origin) ==
    [bytes |-> bytes, msg |-> m, side |-> side, origin |-> origin]

NoStream == Stream(<<>>, NoMsg, "request", "none")

----------------------------------------------------------------------------
(* Inputs.                                                                 *)

SeqsUpTo(S, n) == UNION {[1..k -> S] : k \in 0..n}

\* strings a remote peer may put in a record: valid and invalid ones
IdStrs == {to_base58(2), to_base58(3), BadIdStr}

AddrStrs == {AddrToString(a) : a \in BaseAddrs} \cup {BadAddrStr}

\* the nodes that count size k: one for the node and one per address string
NodesOfSize(ids, addrs, k) == [network_id : ids, multiaddr : [1..(k - 1) -> addrs]]

\* every record of at most the given size
RECURSIVE RecordsUpTo(_, _, _)
RecordsUpTo(ids, addrs, size) ==
    {<<>>} \cup
    UNION {{<<n>> \o r : n \in NodesOfSize(ids, addrs, k),
                         r \in RecordsUpTo(ids, addrs, size - k)} : k \in 1..size}

RecordInputs == RecordsUpTo(IdStrs, AddrStrs, MaxRecordSize)

\* a few records for the runs that exercise every handler together
RecordSamples ==
    { <<>>,
      <<NetworkNode(to_base58(3), <<AddrToString(<<Ip4(1)>>)>>)>>,
      <<NetworkNode(to_base58(2), <<AddrToString(<<Ip4(2)>>)>>)>>,
      <<NetworkNode(to_base58(3), <<AddrToString(<<Ip4(1)>>), AddrToString(<<Ip4(2)>>)>>)>>,
      <<NetworkNode(BadIdStr, <<AddrToString(<<Ip4(1)>>)>>)>>,
      <<NetworkNode(to_base58(3), <<BadAddrStr>>)>> }

RequestMsgs(records) == {Ping, GetNetworkNodes} \cup {SendNodeRecord(r) : r \in records}

ResponseMsgs(records) == {Pong, GotNetworkRecord} \cup {Record(r) : r \in records}

----------------------------------------------------------------------------
(* The event loop.                                                         *)

Init ==
    /\ server_mode \in BOOLEAN
    /\ relay_dial_mode \in BOOLEAN
    /\ local_discovery = FALSE
    /\ boot_nodes \in BootLists
    /\ kademlia = [p \in Peers |-> <<>>]
    /\ pc = "poll"
    /\ event = NoEvent
    /\ kad_before = [p \in Peers |-> <<>>]
    /\ effects = <<>>
    /\ known_nodes = <<>>
    /\ listener_ids = <<>>
    /\ listeners = {}
    /\ rendezvous_cookie = <<>>
    /\ swarm_calls = <<>>
    /\ stream = NoStream
    /\ cpc = "idle"
    /\ decoded = NoResult
    /\ mdns = NoMdns
    /\ floodsub = {}
    /\ api_call = NoCall
    /\ api_result = NoReturn

\* one iteration of the loop: the event ev is polled and its handler leaves out
Iterate(ev, out) ==
    /\ pc = "poll"
    /\ event' = ev
    /\ kad_before' = kademlia
    /\ kademlia' = out.kad
    /\ effects' = out.effects
    /\ pc' = IF out.panicked THEN "panicked" ELSE "handled"
    /\ UNCHANGED <<known_nodes, configVars, swarmVars, codecVars, mdnsVars, apiVars>>

\* SwarmEvent::ConnectionEstablished, on a connection this node dialed
\* (ConnectedPoint::Dialer) or accepted (ConnectedPoint::Listener)
ConnectionEstablished ==
    /\ pc = "poll"
    /\ \E p \in Peers, listener \in BOOLEAN, send_back \in BaseAddrs :
           /\ ~listener => send_back = <<Ip4(1)>>
           /\ Iterate(Event("ConnectionEstablished", p,
                            IF listener THEN <<send_back>> ELSE <<>>, listener, NoMsg, TRUE),
                      handle_connection_established(p, listener, send_back, kademlia,
                                                    server_mode, relay_dial_mode,
                                                    boot_nodes))

\* SwarmEvent::ConnectionClosed
\* num_established: the connections to the peer that remain open
ConnectionClosed ==
    /\ pc = "poll"
    /\ \E p \in Peers, num_established \in {0, 1} :
           Iterate([Event("ConnectionClosed", p, <<>>, FALSE, NoMsg, TRUE)
                        EXCEPT !.num_established = num_established],
                   handle_connection_closed(p, kademlia))

\* NetworkEvent::Identify(IdentifyEvent::Received)
IdentifyReceived ==
    /\ pc = "poll"
    /\ \E p \in Peers, listen_addrs \in SeqsUpTo(BaseAddrs, MaxAddrs), ok \in BOOLEAN :
           Iterate(Event("IdentifyReceived", p, listen_addrs, FALSE, NoMsg, ok),
                   handle_identify_event(p, listen_addrs, ok, kademlia,
                                         server_mode, relay_dial_mode, boot_nodes))

\* handle_req_res_event, Message { peer, message: Request { .. } }
InboundRequest(froms, records) ==
    /\ pc = "poll"
    /\ \E p \in froms, request \in RequestMsgs(records), ok \in BOOLEAN :
           Iterate(Event("Request", p, <<>>, FALSE, request, ok),
                   handle_request_msg(p, request, ok, kademlia, relay_dial_mode, boot_nodes))

\* handle_req_res_event, Message { peer, message: Response { .. } }
InboundResponse(froms, records) ==
    /\ pc = "poll"
    /\ \E p \in froms, response \in ResponseMsgs(records) :
           Iterate(Event("Response", p, <<>>, FALSE, response, TRUE),
                   handle_response_msg(response, kademlia, relay_dial_mode, boot_nodes))

\* handle_req_res_event, OutboundFailure / InboundFailure / ResponseSent:
\* logged only
ReqResNotice ==
    /\ pc = "poll"
    /\ \E p \in Peers, type \in {"OutboundFailure", "InboundFailure", "ResponseSent"} :
           Iterate(Event(type, p, <<>>, FALSE, NoMsg, TRUE), Out(kademlia, <<>>, FALSE))

\* the application calls Network::get_known_nodes between two events
GetKnownNodes ==
    /\ pc = "poll"
    /\ event' = Event("GetKnownNodes", 0, <<>>, FALSE, NoMsg, TRUE)
    /\ known_nodes' = get_known_nodes(kademlia, boot_nodes)
    /\ pc' = "handled"
    /\ kad_before' = kademlia
    /\ UNCHANGED <<kademlia, effects, configVars, swarmVars, codecVars, mdnsVars,
                   apiVars>>

\* the handler has returned: the event is dropped and the loop polls again
EndIteration ==
    /\ pc = "handled"
    /\ pc' = "poll"
    /\ event' = NoEvent
    /\ kad_before' = kademlia
    /\ effects' = <<>>
    /\ known_nodes' = <<>>
    /\ swarm_calls' = <<>>
    /\ UNCHANGED <<kademlia, listener_ids, listeners, rendezvous_cookie,
                   configVars, codecVars, mdnsVars, apiVars>>

Next ==
    \/ ConnectionEstablished
    \/ ConnectionClosed
    \/ IdentifyReceived
    \/ InboundRequest(Peers, RecordSamples)
    \/ InboundResponse(Peers, RecordSamples)
    \/ ReqResNotice
    \/ GetKnownNodes
    \/ EndIteration

Spec == Init /\ [][Next]_vars

\* the request-response protocol alone, fed every record up to MaxRecordSize
NextReqRes ==
    \/ InboundRequest({3}, RecordInputs)
    \/ InboundResponse({3}, RecordInputs)
    \/ ReqResNotice
    \/ EndIteration

SpecReqRes == Init /\ [][NextReqRes]_vars

----------------------------------------------------------------------------
(* Start-up, listeners, dials and failures.                                *)

\* cookies a rendezvous point hands out
Cookies == {1, 2}

\* the addresses an open listener reports: a circuit listener its
\* reservation (through the first boot node's configured address or another
\* address of that relay), an ip listener its interface addresses
ReportedAddrs(id) ==
    CASE id = "relayed" ->
             {get_relayed_addr(boot_nodes, LocalPeer),
              With(With(With(<<Ip4(8)>>, P2p(boot_nodes[1].network_id)), P2pCircuit),
                   P2p(LocalPeer))}
      [] id = "ipv4" -> BaseAddrs
      [] OTHER -> {Ipv6Unspecified}

\* addresses found in registrations: without /p2p, ending in /p2p of peer 2
\* and ending in /p2p of peer 3
DiscoveredAddrs == {<<Ip4(1)>>, <<Ip4(2), P2p(2)>>, <<Ip4(2), P2p(3)>>}

DiscoveredInputs ==
    SeqsUpTo({Registration(p, a) : p \in Peers, a \in DiscoveredAddrs}, MaxDiscovered)

\* a few registration lists for the runs that exercise every handler together
DiscoveredSamples ==
    { <<>>,
      <<Registration(3, <<Ip4(1)>>)>>,
      <<Registration(3, <<Ip4(2), P2p(3)>>), Registration(2, <<Ip4(1)>>)>> }

\* node lists handed to load_nodes
NodeSamples ==
    { <<<<1, <<<<Ip4(9)>>>>>>>>,
      <<<<3, <<<<Ip4(1)>>>>>>>>,
      <<<<3, <<<<Ip4(1)>>, <<Ip4(2)>>>>>>>> }

\* the state before start_listening
InitSwarm ==
    /\ server_mode \in BOOLEAN
    /\ relay_dial_mode \in BOOLEAN
    /\ local_discovery = FALSE
    /\ boot_nodes \in BootLists
    /\ kademlia = [p \in Peers |-> <<>>]
    /\ pc = "start"
    /\ event = NoEvent
    /\ kad_before = [p \in Peers |-> <<>>]
    /\ effects = <<>>
    /\ known_nodes = <<>>
    /\ listener_ids = <<>>
    /\ listeners = {}
    /\ rendezvous_cookie = <<>>
    /\ swarm_calls = <<>>
    /\ stream = NoStream
    /\ cpc = "idle"
    /\ decoded = NoResult
    /\ mdns = NoMdns
    /\ floodsub = {}
    /\ api_call = NoCall
    /\ api_result = NoReturn

\* one step of the driver that may touch the listeners, the cookie and the
\* swarm: ev is handled and leaves the given values
IterateSwarm(ev, panicked, kad, lids, ls, cookie, calls) ==
    /\ event' = ev
    /\ kad_before' = kademlia
    /\ kademlia' = kad
    /\ effects' = <<>>
    /\ listener_ids' = lids
    /\ listeners' = ls
    /\ rendezvous_cookie' = cookie
    /\ swarm_calls' = calls
    /\ pc' = IF panicked THEN "panicked" ELSE "handled"
    /\ UNCHANGED <<known_nodes, configVars, codecVars, mdnsVars, apiVars>>

\* Network::start_listening, before the loop starts
StartListening ==
    /\ pc = "start"
    /\ \E relay_ok \in BOOLEAN, v4_ok \in BOOLEAN, v6_ok \in BOOLEAN :
           LET out == start_listening(server_mode, relay_dial_mode, boot_nodes,
                                      relay_ok, v4_ok, v6_ok)
           IN /\ (server_mode \/ relay_dial_mode) => relay_ok
              /\ IterateSwarm(Event("StartListening", 0, <<>>, FALSE, NoMsg,
                                    relay_ok /\ v4_ok /\ v6_ok),
                              out.panicked, kademlia, listener_ids, out.listeners,
                              rendezvous_cookie, out.calls)

\* SwarmEvent::NewListenAddr, reported by an open listener
NewListenAddr ==
    /\ pc = "poll"
    /\ Len(listener_ids) < MaxListenEvents
    /\ \E id \in listeners :
         \E address \in ReportedAddrs(id) :
           LET out == handle_new_listen_addr(id, address, listener_ids, listeners,
                                             relay_dial_mode, boot_nodes)
           IN IterateSwarm([Event("NewListenAddr", 0, <<address>>, FALSE, NoMsg, TRUE)
                                EXCEPT !.listener_id = id],
                           out.panicked, kademlia, out.listener_ids, out.listeners,
                           rendezvous_cookie, out.calls)

\* NetworkEvent::RendezvousEvent(Either::Left(Discovered { .. }))
RendezvousDiscovered(inputs) ==
    /\ pc = "poll"
    /\ \E new_cookie \in Cookies, registrations \in inputs :
         \E ok_dials \in 0..Len(registrations) :
           LET out == handle_rendezvous_discovered(new_cookie, registrations, ok_dials,
                                                   kademlia, rendezvous_cookie,
                                                   server_mode, relay_dial_mode,
                                                   boot_nodes)
           IN IterateSwarm([Event("RendezvousDiscovered", 0, <<>>, FALSE, NoMsg,
                                  ok_dials = Len(registrations))
                                EXCEPT !.cookie = new_cookie,
                                       !.discovered = registrations],
                           out.panicked, out.kad, listener_ids, listeners,
                           out.cookie, out.calls)

\* the application calls Network::load_nodes between two events
LoadNodesCall ==
    /\ pc = "poll"
    /\ \E nodes \in NodeSamples, all_ok \in BOOLEAN :
           LET n == Len(nodes[1][2])
               out == load_nodes(nodes, IF all_ok THEN n ELSE n - 1,
                                 kademlia, rendezvous_cookie)
           IN IterateSwarm(Event("LoadNodes", nodes[1][1], nodes[1][2], FALSE, NoMsg,
                                 all_ok),
                           out.panicked, out.kad, listener_ids, listeners,
                           out.cookie, out.calls)

\* NetworkEvent::Ping
PingResult ==
    /\ pc = "poll"
    /\ \E p \in Peers, result_ok \in BOOLEAN :
           Iterate(Event("Ping", p, <<>>, FALSE, NoMsg, result_ok),
                   handle_ping_event(p, result_ok, kademlia, server_mode, boot_nodes))

\* SwarmEvent::OutgoingConnectionError
OutgoingConnectionError ==
    /\ pc = "poll"
    /\ \E p \in Peers \cup {0}, transport_other \in BOOLEAN :
           Iterate(Event("OutgoingConnectionError", p,
                         IF transport_other THEN <<<<Ip4(9)>>>> ELSE <<>>,
                         FALSE, NoMsg, TRUE),
                   handle_outgoing_connection_error(p, transport_other, kademlia,
                                                    server_mode, boot_nodes))

NextSwarm ==
    \/ StartListening
    \/ NewListenAddr
    \/ RendezvousDiscovered(DiscoveredSamples)
    \/ LoadNodesCall
    \/ PingResult
    \/ OutgoingConnectionError
    \/ ReqResNotice
    \/ EndIteration

SpecSwarm == InitSwarm /\ [][NextSwarm]_vars

\* the handling of Discovered alone, fed every registration list up to
\* MaxDiscovered
NextDiscover ==
    \/ RendezvousDiscovered(DiscoveredInputs)
    \/ EndIteration

SpecDiscover == Init /\ [][NextDiscover]_vars

\* discovery as a client goes through it: connections are established and
\* Discovered events come back
NextCookie ==
    \/ RendezvousDiscovered(DiscoveredSamples)
    \/ ConnectionEstablished
    \/ EndIteration

SpecCookie == Init /\ [][NextCookie]_vars

----------------------------------------------------------------------------
(* Local discovery on a client whose mDNS behaviour is running.            *)

\* the (peer, address) pairs mDNS can hold on the local network
MdnsPairs == {Registration(p, a) : p \in {2, 3}, a \in BaseAddrs}

\* the lists an mDNS event carries: distinct pairs, at most MaxDiscovered
MdnsLists(pairs) ==
    {l \in SeqsUpTo(pairs, MaxDiscovered) : Cardinality(SetOf(l)) = Len(l)}

\* a client built with local_discovery set (behaviour.rs:66); the handlers
\* read local_discovery from the configuration they are handed with each
\* event (handler.rs:665), which the application may have changed since
InitMdns ==
    /\ server_mode = FALSE
    /\ relay_dial_mode = FALSE
    /\ local_discovery \in BOOLEAN
    /\ boot_nodes \in BootLists
    /\ kademlia = [p \in Peers |-> <<>>]
    /\ pc = "poll"
    /\ event = NoEvent
    /\ kad_before = [p \in Peers |-> <<>>]
    /\ effects = <<>>
    /\ known_nodes = <<>>
    /\ listener_ids = <<>>
    /\ listeners = {}
    /\ rendezvous_cookie = <<>>
    /\ swarm_calls = <<>>
    /\ stream = NoStream
    /\ cpc = "idle"
    /\ decoded = NoResult
    /\ mdns = [enabled |-> TRUE, nodes |-> {}]
    /\ floodsub = {}
    /\ api_call = NoCall
    /\ api_result = NoReturn

\* one mDNS event: the behaviour has brought its discovered set to nodes, ev
\* is handled and leaves out
IterateMdns(ev, nodes, out) ==
    /\ event' = ev
    /\ mdns' = [mdns EXCEPT !.nodes = nodes]
    /\ kad_before' = kademlia
    /\ kademlia' = out.kad
    /\ floodsub' = out.floodsub
    /\ effects' = <<>>
    /\ pc' = IF out.panicked THEN "panicked" ELSE "handled"
    /\ UNCHANGED <<known_nodes, configVars, swarmVars, codecVars, apiVars>>

\* NetworkEvent::Mdns(MdnsEvent::Discovered): pairs mDNS did not hold yet
MdnsDiscovered ==
    /\ pc = "poll"
    /\ mdns.enabled
    /\ \E discovered_list \in MdnsLists(MdnsPairs \ mdns.nodes) :
           /\ discovered_list # <<>>
           /\ IterateMdns([Event("MdnsDiscovered", 0, <<>>, FALSE, NoMsg, TRUE)
                               EXCEPT !.discovered = discovered_list],
                          mdns.nodes \cup SetOf(discovered_list),
                          handle_mdns_discovered(discovered_list, kademlia, floodsub,
                                                 local_discovery))

\* NetworkEvent::Mdns(MdnsEvent::Expired): pairs mDNS held and has dropped
MdnsExpired ==
    /\ pc = "poll"
    /\ mdns.enabled
    /\ \E expired_list \in MdnsLists(mdns.nodes) :
           /\ expired_list # <<>>
           /\ LET nodes == mdns.nodes \ SetOf(expired_list)
              IN IterateMdns([Event("MdnsExpired", 0, <<>>, FALSE, NoMsg, TRUE)
                                  EXCEPT !.discovered = expired_list],
                             nodes,
                             handle_mdns_expired(expired_list, kademlia, floodsub,
                                                 [mdns EXCEPT !.nodes = nodes]))

NextMdns ==
    \/ MdnsDiscovered
    \/ MdnsExpired
    \/ ConnectionClosed
    \/ EndIteration

SpecMdns == InitMdns /\ [][NextMdns]_vars

----------------------------------------------------------------------------
(* Every event of the loop together, on a driver that holds little.       *)

\* events whose arm only writes to the log: handle_kademlia_event,
\* handle_relay_server_event, handle_dcutr_event, the Floodsub arm, the
\* rendezvous events other than Discovered, and the listener and connection
\* arms of handle_swarm_event
LoggedEvents ==
    {"Kademlia", "RelayEvent", "DCUtR", "Floodsub",
     "PeerRegistered", "DiscoverServed", "Registered", "RegisterFailed",
     "IncomingConnection", "IncomingConnectionError",
     "ExpiredListenAddr", "ListenerClosed", "ListenerError"}

\* the arms that unwrap what they log: from_utf8(..).unwrap() on a found
\* record (handler.rs:598) and error.unwrap() on CircuitClosed (handler.rs:785)
LoggedEvent ==
    /\ pc = "poll"
    /\ \E type \in LoggedEvents, p \in Peers, unwrap_ok \in BOOLEAN :
           /\ type \notin {"Kademlia", "RelayEvent"} => unwrap_ok
           /\ Iterate(Event(type, p, <<>>, FALSE, NoMsg, unwrap_ok),
                      Out(kademlia, <<>>, ~unwrap_ok))

\* the addresses the routing table holds
TableSize(kad) == Len(kad[1]) + Len(kad[2]) + Len(kad[3])

\* what the driver holds: routing addresses, listener ids, the cookie, and
\* the pairs mDNS holds for it
DriverSize ==
    TableSize(kademlia) + Len(listener_ids) + Len(rendezvous_cookie)
        + Cardinality(mdns.nodes)

\* the runs of every event together feed events to a driver that holds
\* fewer than MaxDriverSize items
HasRoom == DriverSize < MaxDriverSize

\* the state before start_listening; a client was built with local_discovery
\* set and runs mDNS, a server has none (behaviour.rs:66); local_discovery is
\* the value the handlers are handed now
InitFrame ==
    /\ server_mode \in BOOLEAN
    /\ relay_dial_mode \in BOOLEAN
    /\ local_discovery \in BOOLEAN
    /\ boot_nodes \in BootLists
    /\ kademlia = [p \in Peers |-> <<>>]
    /\ pc = "start"
    /\ event = NoEvent
    /\ kad_before = [p \in Peers |-> <<>>]
    /\ effects = <<>>
    /\ known_nodes = <<>>
    /\ listener_ids = <<>>
    /\ listeners = {}
    /\ rendezvous_cookie = <<>>
    /\ swarm_calls = <<>>
    /\ stream = NoStream
    /\ cpc = "idle"
    /\ decoded = NoResult
    /\ mdns = [enabled |-> ~server_mode, nodes |-> {}]
    /\ floodsub = {}
    /\ api_call = NoCall
    /\ api_result = NoReturn

NextFrame ==
    \/ StartListening
    \/ HasRoom /\ NewListenAddr
    \/ HasRoom /\ ConnectionEstablished
    \/ ConnectionClosed
    \/ HasRoom /\ IdentifyReceived
    \/ HasRoom /\ InboundRequest({3}, RecordSamples)
    \/ HasRoom /\ InboundResponse({3}, RecordSamples)
    \/ HasRoom /\ ReqResNotice
    \/ HasRoom /\ RendezvousDiscovered(DiscoveredSamples)
    \/ HasRoom /\ MdnsDiscovered
    \/ HasRoom /\ MdnsExpired
    \/ HasRoom /\ PingResult
    \/ HasRoom /\ OutgoingConnectionError
    \/ HasRoom /\ LoggedEvent
    \/ EndIteration

SpecFrame == InitFrame /\ [][NextFrame]_vars

----------------------------------------------------------------------------
(* Set-up, before the swarm exists: the application reads the bootstrap    *)
(* file, makes an identity and builds the swarm.                           *)

V4Str == AddrToString(<<Ip4(1)>>)
V6Str == AddrToString(<<Ip6(6)>>)

\* lines of a bootstrap file: well formed with two addresses (IPv4 then IPv6,
\* or two IPv4) or one, and malformed: an unparseable peer id, no address
\* part, an empty address part, an unparseable address
BootLines ==
    { Line(2, to_base58(2), <<V4Str, V6Str>>),
      Line(2, to_base58(2), <<V4Str, AddrToString(<<Ip4(2)>>)>>),
      Line(2, to_base58(3), <<V4Str>>),
      Line(2, to_base58(3), <<V6Str>>),
      Line(2, BadIdStr, <<V4Str>>),
      Line(1, to_base58(2), <<>>),
      Line(2, to_base58(2), <<>>),
      Line(2, to_base58(2), <<BadAddrStr>>) }

\* the byte sequences an application may offer as a private key
KeyBytes == SeqsUpTo({0, 1}, MaxKeyLen)

InitApi ==
    /\ server_mode \in BOOLEAN
    /\ relay_dial_mode = FALSE
    /\ local_discovery \in BOOLEAN
    /\ boot_nodes = <<>>
    /\ kademlia = [p \in Peers |-> <<>>]
    /\ pc = "start"
    /\ event = NoEvent
    /\ kad_before = [p \in Peers |-> <<>>]
    /\ effects = <<>>
    /\ known_nodes = <<>>
    /\ listener_ids = <<>>
    /\ listeners = {}
    /\ rendezvous_cookie = <<>>
    /\ swarm_calls = <<>>
    /\ stream = NoStream
    /\ cpc = "idle"
    /\ decoded = NoResult
    /\ mdns = NoMdns
    /\ floodsub = {}
    /\ api_call = NoCall
    /\ api_result = NoReturn

\* the application calls a set-up function with args and gets result
Call(op, args, result) ==
    /\ api_call = NoCall
    /\ api_call' = ApiCall(op, args)
    /\ api_result' = result
    /\ UNCHANGED <<configVars, driverVars, swarmVars, codecVars, mdnsVars>>

\* Network::build_swarm(&config)
BuildSwarm ==
    /\ pc = "start"
    /\ \E mdns_ok \in BOOLEAN :
           Call("build_swarm", <<mdns_ok>>,
                build_swarm(server_mode, local_discovery, mdns_ok))

\* load_bootnodes(file_path)
LoadBootnodes ==
    /\ pc = "start"
    /\ \E file_ok \in BOOLEAN, lines \in SeqsUpTo(BootLines, MaxLines) :
         \E probes \in [1..Len(lines) -> BOOLEAN] :
           /\ ~file_ok => lines = <<>>
           /\ Call("load_bootnodes", <<file_ok, lines, probes>>,
                   load_bootnodes(file_ok, lines, probes))

\* Network::from_bytes(bytes)
FromBytes ==
    /\ pc = "start"
    /\ \E bytes \in KeyBytes : Call("from_bytes", <<bytes>>, from_bytes(bytes))

\* Network::gen_random_id_with_private()
GenRandomIdWithPrivate ==
    /\ pc = "start"
    /\ \E private_key \in [1..KeyLen -> {0, 1}] :
           Call("gen_random_id_with_private", <<>>,
                Return(gen_random_id_with_private(private_key)))

\* the call has returned and the application goes on
ApiReturn ==
    /\ api_call # NoCall
    /\ ~api_result.panicked
    /\ api_call' = NoCall
    /\ api_result' = NoReturn
    /\ UNCHANGED <<configVars, driverVars, swarmVars, codecVars, mdnsVars>>

NextApi ==
    \/ BuildSwarm
    \/ LoadBootnodes
    \/ FromBytes
    \/ GenRandomIdWithPrivate
    \/ ApiReturn

SpecApi == InitApi /\ [][NextApi]_vars

----------------------------------------------------------------------------
(* The timestamps of a manifest (manifest/src/zeronet/utils.rs).  The      *)
(* numbers are wider than the integers of the model: a number is the       *)
(* sequence of its decimal digits, the first one not 0 unless it is <<0>>. *)

\* the digits an integer of 13 digits, of 10 digits, counts (utils.rs:7, 9)
MillisDigits == 13

SecondsDigits == 10

Zeros(k) == [i \in 1..k |-> 0]

\* the digits without leading zeros
RECURSIVE Strip(_)
Strip(digits) ==
    IF Len(digits) <= 1 THEN (IF digits = <<>> THEN <<0>> ELSE digits)
    ELSE IF Head(digits) = 0 THEN Strip(Tail(digits)) ELSE digits

\* digits + 1
RECURSIVE Inc(_)
Inc(digits) ==
    IF digits = <<>> THEN <<1>>
    ELSE LET n == Len(digits)
         IN IF digits[n] < 9 THEN [digits EXCEPT ![n] = @ + 1]
            ELSE Append(Inc(SubSeq(digits, 1, n - 1)), 0)

\* a - b - borrow on digit sequences of one length, a >= b
RECURSIVE Sub(_, _, _)
Sub(a, b, borrow) ==
    IF a = <<>> THEN <<>>
    ELSE LET n == Len(a)
             d == a[n] - b[n] - borrow
         IN Append(Sub(SubSeq(a, 1, n - 1), SubSeq(b, 1, n - 1), IF d < 0 THEN 1 ELSE 0),
                   IF d < 0 THEN d + 10 ELSE d)

\* 2^64, one more than usize::MAX on a 64-bit target
UsizeModulus == <<1, 8, 4, 4, 6, 7, 4, 4, 0, 7, 3, 7, 0, 9, 5, 5, 1, 6, 1, 6>>

\* zerucontent::Number::Integer(usize)
Integer(epoch) == [variant |-> "Integer", neg |-> FALSE, whole |-> epoch, frac |-> <<>>]

\* zerucontent::Number::Float(f64), a decimal the f64 holds exactly: its
\* sign, the digits before and the digits after the point
Float(neg, whole, frac) == [variant |-> "Float", neg |-> neg, whole |-> whole, frac |-> frac]

\* DateTime<Utc>: the instant neg ? -millis : millis milliseconds from the epoch
DateTime(neg, millis) == [neg |-> neg, millis |-> millis]

\* usize::checked_ilog10: <<>> (None) for 0
checked_ilog10(epoch) == IF epoch = <<0>> THEN <<>> ELSE <<Len(epoch) - 1>>

\* datetime_from_number; (epoch * 1000.0) as i64 drops what is left of the
\* fraction; unreachable! on an integer of another length
datetime_from_number(modified) ==
    IF modified.variant = "Integer"
    THEN LET epoch == modified.whole
             log == checked_ilog10(epoch)
             count == (IF log = <<>> THEN 0 ELSE log[1]) + 1
         IN IF count = MillisDigits THEN Return(DateTime(FALSE, epoch))
            ELSE IF count = SecondsDigits THEN Return(DateTime(FALSE, epoch \o Zeros(3)))
            ELSE Panicked
    ELSE LET epoch == Strip(modified.whole \o SubSeq(modified.frac \o Zeros(3), 1, 3))
         IN Return(DateTime(modified.neg /\ epoch # <<0>>, epoch))

\* DateTime::timestamp_millis
timestamp_millis(dt) == [neg |-> dt.neg, digits |-> dt.millis]

\* DateTime::timestamp: the seconds from the epoch, rounded down
timestamp(dt) ==
    LET n == Len(dt.millis)
        secs == IF n <= 3 THEN <<0>> ELSE SubSeq(dt.millis, 1, n - 3)
        whole == Strip(SubSeq(Zeros(3) \o dt.millis, n + 1, n + 3)) = <<0>>
    IN IF ~dt.neg THEN [neg |-> FALSE, digits |-> secs]
       ELSE IF whole THEN [neg |-> TRUE, digits |-> secs]
       ELSE [neg |-> TRUE, digits |-> Strip(Inc(secs))]

\* epoch as usize, of an i64: a negative value wraps to 2^64 - |epoch|
as_usize(epoch) ==
    IF ~epoch.neg THEN epoch.digits
    ELSE LET n == Len(UsizeModulus)
         IN Strip(Sub(UsizeModulus, Zeros(n - Len(epoch.digits)) \o epoch.digits, 0))

\* number_from_datetime
number_from_datetime(modified) ==
    LET epoch == timestamp(modified)
    IN Integer(as_usize(epoch))

\* second counts of ten digits, and what may follow them
SecondsSamples ==
    { <<1, 6, 1, 0, 0, 0, 0, 0, 0, 0>>, <<1, 6, 0, 9, 9, 7, 7, 6, 0, 0>>,
      <<1, 0, 0, 0, 0, 0, 0, 0, 0, 0>>, <<9, 9, 9, 9, 9, 9, 9, 9, 9, 9>> }

MillisSamples == {<<0, 0, 0>>, <<0, 0, 1>>, <<5, 0, 0>>, <<9, 9, 9>>}

\* fractions a float holds exactly
FractionSamples == {<<>>, <<5>>, <<2, 5>>, <<1, 2, 5>>, <<0, 6, 2, 5>>}

\* the numbers a manifest may carry as its modification time
NumberInputs ==
    {Integer(s) : s \in SecondsSamples}
        \cup {Integer(s \o m) : s \in SecondsSamples, m \in MillisSamples}
        \cup {Integer(d) : d \in {<<0>>, <<7>>, <<1, 6, 1, 0>>, <<1, 6, 1, 0, 0, 0, 0, 0, 0>>,
                                  <<1, 6, 1, 0, 0, 0, 0, 0, 0, 0, 0, 0>>}}
        \cup {Float(neg, w, f) : neg \in BOOLEAN,
                                 w \in SecondsSamples \cup {<<0>>, <<1>>},
                                 f \in FractionSamples}

\* the instants datetime_from_number hands back for them
DateTimeInputs ==
    {datetime_from_number(n).value : n \in {m \in NumberInputs : ~datetime_from_number(m).panicked}}

InitTime ==
    /\ server_mode = FALSE
    /\ relay_dial_mode = FALSE
    /\ local_discovery = FALSE
    /\ boot_nodes = <<>>
    /\ kademlia = [p \in Peers |-> <<>>]
    /\ pc = "start"
    /\ event = NoEvent
    /\ kad_before = [p \in Peers |-> <<>>]
    /\ effects = <<>>
    /\ known_nodes = <<>>
    /\ listener_ids = <<>>
    /\ listeners = {}
    /\ rendezvous_cookie = <<>>
    /\ swarm_calls = <<>>
    /\ stream = NoStream
    /\ cpc = "idle"
    /\ decoded = NoResult
    /\ mdns = NoMdns
    /\ floodsub = {}
    /\ api_call = NoCall
    /\ api_result = NoReturn

\* datetime_from_number(modified)
DatetimeFromNumber ==
    /\ pc = "start"
    /\ \E modified \in NumberInputs :
           Call("datetime_from_number", <<modified>>, datetime_from_number(modified))

\* number_from_datetime(modified)
NumberFromDatetime ==
    /\ pc = "start"
    /\ \E modified \in DateTimeInputs :
           Call("number_from_datetime", <<modified>>, Return(number_from_datetime(modified)))

NextTime ==
    \/ DatetimeFromNumber
    \/ NumberFromDatetime
    \/ ApiReturn

SpecTime == InitTime /\ [][NextTime]_vars

----------------------------------------------------------------------------
(* The codec on one substream: a remote peer writes, this node reads.      *)

\* the strings of the records the codec is run on
CodecIdStrs == {<<81>>, <<81, 109>>}

CodecAddrStrs == {<<47>>, <<47, 105>>}

CodecRecords == RecordsUpTo(CodecIdStrs, CodecAddrStrs, MaxRecordSize)

\* values a damaged cell may take
DamagedCells == {0, 3, 9}

InitCodec ==
    /\ server_mode = FALSE
    /\ relay_dial_mode = FALSE
    /\ local_discovery = FALSE
    /\ boot_nodes = <<>>
    /\ kademlia = [p \in Peers |-> <<>>]
    /\ pc = "poll"
    /\ event = NoEvent
    /\ kad_before = [p \in Peers |-> <<>>]
    /\ effects = <<>>
    /\ known_nodes = <<>>
    /\ listener_ids = <<>>
    /\ listeners = {}
    /\ rendezvous_cookie = <<>>
    /\ swarm_calls = <<>>
    /\ stream = NoStream
    /\ cpc = "idle"
    /\ decoded = NoResult
    /\ mdns = NoMdns
    /\ floodsub = {}
    /\ api_call = NoCall
    /\ api_result = NoReturn

\* DecentNetProtocol::write_request, by the remote peer
WriteRequest ==
    /\ cpc = "idle"
    /\ \E m \in RequestMsgs(CodecRecords) :
           stream' = Stream(Encode("request", m), m, "request", "encoded")
    /\ cpc' = "written"
    /\ UNCHANGED <<decoded, configVars, driverVars, swarmVars,
                   mdnsVars, apiVars>>

\* DecentNetProtocol::write_response, by the remote peer
WriteResponse ==
    /\ cpc = "idle"
    /\ \E m \in ResponseMsgs(CodecRecords) :
           stream' = Stream(Encode("response", m), m, "response", "encoded")
    /\ cpc' = "written"
    /\ UNCHANGED <<decoded, configVars, driverVars, swarmVars,
                   mdnsVars, apiVars>>

\* the substream closes early: only a prefix of the bytes arrives
Truncate ==
    /\ cpc = "written"
    /\ stream.origin = "encoded"
    /\ \E k \in 0..(Len(stream.bytes) - 1) :
           stream' = [stream EXCEPT !.bytes = SubSeq(@, 1, k), !.origin = "truncated"]
    /\ UNCHANGED <<cpc, decoded, configVars, driverVars, swarmVars,
                   mdnsVars, apiVars>>

\* one cell of the bytes arrives damaged
Corrupt ==
    /\ cpc = "written"
    /\ stream.origin = "encoded"
    /\ \E i \in 1..Len(stream.bytes), v \in DamagedCells :
           /\ v # stream.bytes[i]
           /\ stream' = [stream EXCEPT !.bytes[i] = v, !.origin = "corrupted"]
    /\ UNCHANGED <<cpc, decoded, configVars, driverVars, swarmVars,
                   mdnsVars, apiVars>>

\* the peer sends more than ReadLimit bytes: the archive of the message,
\* which ends the buffer, behind leading cells no pointer refers to
Oversize ==
    /\ cpc = "written"
    /\ stream.origin = "encoded"
    /\ \E n \in {ReadLimit + 1 - Len(stream.bytes), ReadLimit} :
           stream' = [stream EXCEPT !.bytes = [i \in 1..n |-> 0] \o @,
                                    !.origin = "oversize"]
    /\ UNCHANGED <<cpc, decoded, configVars, driverVars, swarmVars,
                   mdnsVars, apiVars>>

\* DecentNetProtocol::read_request
ReadRequest ==
    /\ cpc = "written"
    /\ stream.side = "request"
    /\ \E io_fails \in BOOLEAN : decoded' \in read("request", stream.bytes, io_fails)
    /\ cpc' = "read"
    /\ UNCHANGED <<stream, configVars, driverVars, swarmVars,
                   mdnsVars, apiVars>>

\* DecentNetProtocol::read_response
ReadResponse ==
    /\ cpc = "written"
    /\ stream.side = "response"
    /\ \E io_fails \in BOOLEAN : decoded' \in read("response", stream.bytes, io_fails)
    /\ cpc' = "read"
    /\ UNCHANGED <<stream, configVars, driverVars, swarmVars,
                   mdnsVars, apiVars>>

\* the substream is dropped
CloseStream ==
    /\ cpc = "read"
    /\ cpc' = "idle"
    /\ stream' = NoStream
    /\ decoded' = NoResult
    /\ UNCHANGED <<configVars, driverVars, swarmVars,
                   mdnsVars, apiVars>>

NextCodec ==
    \/ WriteRequest
    \/ WriteResponse
    \/ Truncate
    \/ Corrupt
    \/ Oversize
    \/ ReadRequest
    \/ ReadResponse
    \/ CloseStream

SpecCodec == InitCodec /\ [][NextCodec]_vars

----------------------------------------------------------------------------
(* Properties.                                                             *)

IsResponseEff(e) == e.op = "send_response"

\* the responses the current handler put on the request's channel
ResponsesSent == SelectSeq(effects, IsResponseEff)

PairedResponse(kind) ==
    CASE kind = "Ping" -> "Pong"
      [] kind = "GetNetworkNodes" -> "Record"
      [] OTHER -> "GotNetworkRecord"

BootIds == {boot_nodes[i].network_id : i \in 1..Len(boot_nodes)}

Returned == pc = "handled"

Ended == pc \in {"handled", "panicked"}

\* a node record was handed to load_node_record in this iteration
RecordEvent ==
    \/ event.type = "Request" /\ event.msg.kind = "SendNodeRecord"
    \/ event.type = "Response" /\ event.msg.kind = "Record"

\* the addresses a record lists for peer p, among its entries that parse
Listed(r, p) ==
    UNION {{AddrFromStr(r[i].multiaddr[j]) :
                j \in {k \in 1..Len(r[i].multiaddr) : IsAddrStr(r[i].multiaddr[k])}} :
           i \in {k \in 1..Len(r) : IsPeerIdStr(r[k].network_id)
                                    /\ PeerIdFromStr(r[k].network_id) = p}}

\* C1: every inbound request whose channel is still open is answered with
\* exactly one response, of the variant paired to the request: Pong for
\* Ping, Record for GetNetworkNodes, GotNetworkRecord for SendNodeRecord.
C1_EveryRequestAnsweredOnce ==
    (Ended /\ event.type = "Request" /\ event.call_ok) =>
        /\ Len(ResponsesSent) = 1
        /\ ResponsesSent[1].msg.kind = PairedResponse(event.msg.kind)

\* C2: the Record sent in reply to GetNetworkNodes from q lists, once each,
\* exactly the peers of the routing table that are neither q nor a boot node.
C2_RecordListsOtherNonBootPeers ==
    (Returned /\ event.type = "Request" /\ event.msg.kind = "GetNetworkNodes") =>
        LET expected == {p \in Peers : /\ HasEntry(kad_before, p)
                                       /\ p # event.peer
                                       /\ p \notin BootIds}
        IN /\ Len(ResponsesSent) = 1
           /\ ResponsesSent[1].msg.kind = "Record"
           /\ LET nodes == ResponsesSent[1].msg.record
              IN /\ {nodes[i].network_id : i \in 1..Len(nodes)}
                        = {to_base58(p) : p \in expected}
                 /\ Len(nodes) = Cardinality(expected)

C2_Witness ==
    /\ Returned /\ event.type = "Request" /\ event.msg.kind = "GetNetworkNodes"
    /\ HasEntry(kad_before, event.peer)
    /\ \E b \in BootIds : HasEntry(kad_before, b)
    /\ ResponsesSent[1].msg.record # <<>>

\* C3: no snapshot of the known peers, get_known_nodes for the application
\* or the Record sent to a peer, names a peer of the boot node list.
C3_SnapshotsExcludeBootNodes ==
    /\ \A i \in 1..Len(known_nodes) : known_nodes[i][1] \notin BootIds
    /\ \A i \in 1..Len(effects) :
          effects[i].op = "send_response" =>
              \A j \in 1..Len(effects[i].msg.record) :
                  effects[i].msg.record[j].network_id \notin {to_base58(b) : b \in BootIds}

C3_Witness ==
    /\ Returned /\ event.type = "GetKnownNodes"
    /\ Len(boot_nodes) = 2
    /\ \A b \in BootIds : HasEntry(kademlia, b)
    /\ known_nodes # <<>>

\* C7: after ConnectionClosed for peer p the routing table holds no address
\* of p, and the entries of every other peer are as before.
C7_ConnectionClosedRemovesPeer ==
    (Ended /\ event.type = "ConnectionClosed") =>
        /\ Returned
        /\ kademlia[event.peer] = <<>>
        /\ \A p \in Peers \ {event.peer} : kademlia[p] = kad_before[p]

C7_Witness ==
    /\ Returned /\ event.type = "ConnectionClosed"
    /\ Len(kad_before[event.peer]) = 2
    /\ \E p \in Peers \ {event.peer} : HasEntry(kademlia, p)

\* C8: on IdentifyReceived from p the table gains, for each advertised
\* address a, the relayed address of p through the first boot node when the
\* node is a client in relay-dial mode and p is not that boot node, and a
\* itself in every other case; nothing else changes.  (With no boot node to
\* relay through nothing is added.)
C8_IdentifyAddsAddress ==
    (Ended /\ event.type = "IdentifyReceived") =>
        LET p == event.peer
            rewrite == /\ ~server_mode
                       /\ relay_dial_mode
                       /\ (boot_nodes = <<>> \/ p # boot_nodes[1].network_id)
            advertised == SetOf(event.addrs)
        IN /\ \A o \in Peers \ {p} : kademlia[o] = kad_before[o]
           /\ IF rewrite /\ boot_nodes = <<>> THEN kademlia = kad_before
              ELSE SetOf(kademlia[p]) =
                       SetOf(kad_before[p]) \cup
                       (IF ~rewrite THEN advertised
                        ELSE IF advertised = {} THEN {}
                        ELSE {get_relayed_addr(boot_nodes, p)})

C8_Witness ==
    /\ Returned /\ event.type = "IdentifyReceived"
    /\ ~server_mode /\ relay_dial_mode
    /\ event.peer # boot_nodes[1].network_id
    /\ Len(event.addrs) = 2
    /\ kad_before[event.peer] = <<>>
    /\ kademlia[event.peer] = <<get_relayed_addr(boot_nodes, event.peer)>>

\* C9: handling SendNodeRecord(r) sends exactly one Ping to each peer merged
\* from r, however many addresses r lists for it, and then responds
\* GotNetworkRecord.
C9_OnePingPerMergedPeer ==
    (Returned /\ event.type = "Request" /\ event.msg.kind = "SendNodeRecord") =>
        LET r == event.msg.record
            merged == {p \in Peers : Listed(r, p) # {}}
            Pings(p) == Cardinality({i \in 1..Len(effects) :
                                        effects[i] = SendRequestEff(p, Ping)})
        IN /\ \A p \in Peers : Pings(p) = IF p \in merged THEN 1 ELSE 0
           /\ Len(ResponsesSent) = 1
           /\ effects[Len(effects)] = SendResponseEff(GotNetworkRecord)

\* C10: a record is merged by one rule, as a SendNodeRecord request or as a
\* Record response: without relay_dial_mode the table gains exactly the
\* (peer, address) pairs the record lists, with it every listed address is
\* replaced by the peer's relayed address through the first boot node; a
\* merge that panics has added nothing but such pairs; Pong and
\* GotNetworkRecord change nothing.
C10_RecordMergeRule ==
    /\ (Ended /\ RecordEvent) =>
          \A p \in Peers :
              LET listed == Listed(event.msg.record, p)
                  gain == IF ~relay_dial_mode THEN listed
                          ELSE IF listed = {} \/ boot_nodes = <<>> THEN {}
                          ELSE {get_relayed_addr(boot_nodes, p)}
                  gained == SetOf(kademlia[p]) \ SetOf(kad_before[p])
              IN /\ SetOf(kad_before[p]) \subseteq SetOf(kademlia[p])
                 /\ gained \subseteq gain
                 /\ Returned => gain \subseteq SetOf(kademlia[p])
    /\ (Ended /\ event.type = "Response" /\ event.msg.kind \in {"Pong", "GotNetworkRecord"}) =>
          /\ Returned
          /\ kademlia = kad_before
          /\ effects = <<>>

C10_Witness ==
    /\ Returned /\ event.type = "Response" /\ event.msg.kind = "Record"
    /\ relay_dial_mode
    /\ Len(event.msg.record) = 1
    /\ Len(event.msg.record[1].multiaddr) = 2
    /\ event.msg.record[1].multiaddr[1] # event.msg.record[1].multiaddr[2]
    /\ kad_before[3] = <<>>
    /\ kademlia[3] = <<get_relayed_addr(boot_nodes, 3)>>

\* C4: decoding the bytes that encoding a request or response produced
\* yields that message again.
C4_CodecRoundTrip ==
    stream.origin = "encoded" =>
        /\ ValidArchive(stream.side, stream.bytes)
        /\ Decode(stream.side, stream.bytes) = stream.msg
        /\ (cpc = "read" /\ decoded.kind # "IoError") => decoded = Result("Ok", stream.msg)

C4_Witness ==
    /\ cpc = "read"
    /\ stream.origin = "encoded"
    /\ stream.side = "response"
    /\ Len(stream.msg.record) = 2
    /\ \E i \in 1..2 : stream.msg.record[i].multiaddr # <<>>
    /\ decoded = Result("Ok", stream.msg)

\* C5: bytes that are no valid encoding (empty, truncated, corrupted) make
\* read_request / read_response return an error value.
C5_InvalidBytesRejected ==
    (cpc = "read" /\ ~ValidArchive(stream.side, Take(stream.bytes, ReadLimit))) =>
        decoded.kind = "IoError"

\* C6: a message longer than the 2048-byte ceiling is rejected with an
\* error, never decoded from its first 2048 bytes.
C6_OversizeRejected ==
    (cpc = "read" /\ Len(stream.bytes) > ReadLimit) => decoded.kind = "IoError"

----------------------------------------------------------------------------
(* Properties of the listeners, the dials and the rendezvous cookie.       *)

IsDial(c) == c.op = "dial"

IsRemoveListener(c) == c.op = "remove_listener"

\* the listeners the current handler asked the swarm to remove
RemovedListeners == {c.id : c \in {d \in SetOf(swarm_calls) : IsRemoveListener(d)}}

\* the current event reports this node's own relayed address outside
\* relay-dial mode
ReportsOwnRelayedAddr ==
    /\ ~relay_dial_mode
    /\ boot_nodes # <<>>
    /\ event.addrs = <<get_relayed_addr(boot_nodes, LocalPeer)>>

NoDuplicates(seq) == \A i, j \in 1..Len(seq) : seq[i] = seq[j] => i = j

IsRelayedAddr(addr) == \E i \in 1..Len(addr) : addr[i] = P2pCircuit

FailureEvents == {"OutgoingConnectionError", "OutboundFailure", "InboundFailure"}

\* C11: in client mode the stored rendezvous_cookie is the cookie of the
\* most recently handled Discovered event: handling one stores its cookie,
\* also when a dial then fails, and no other step changes the cookie; in
\* server mode a Discovered event changes nothing and issues no dial.
C11_CookieIsLastDiscovered ==
    /\ []((Ended /\ event.type = "RendezvousDiscovered" /\ ~server_mode)
            => rendezvous_cookie = <<event.cookie>>)
    /\ [][(event'.type # "RendezvousDiscovered" \/ server_mode)
            => rendezvous_cookie' = rendezvous_cookie]_vars
    /\ [][(event'.type = "RendezvousDiscovered" /\ server_mode)
            => /\ pc' = "handled"
               /\ swarm_calls' = <<>>
               /\ effects' = <<>>
               /\ UNCHANGED <<kademlia, listener_ids, listeners>>]_vars

C11_Witness ==
    /\ Ended /\ event.type = "RendezvousDiscovered"
    /\ ~server_mode
    /\ pc = "panicked"
    /\ Len(event.discovered) = 2
    /\ Len(swarm_calls) = 1
    /\ rendezvous_cookie = <<event.cookie>>

\* C12: on Discovered in client mode one dial is issued per discovered
\* (peer, address), in order: to the peer's relayed address through the first
\* boot node in relay-dial mode, else to the address ending in exactly one
\* /p2p/<peer>.
C12_OneDialPerDiscovered ==
    (Ended /\ event.type = "RendezvousDiscovered" /\ ~server_mode) =>
        /\ Len(swarm_calls) = Len(event.discovered)
        /\ \A i \in 1..Len(swarm_calls) :
              LET reg == event.discovered[i]
                  direct == IF reg.address[Len(reg.address)] = P2p(reg.peer)
                            THEN reg.address
                            ELSE reg.address \o <<P2p(reg.peer)>>
              IN /\ swarm_calls[i].op = "dial"
                 /\ IF relay_dial_mode
                    THEN /\ boot_nodes # <<>>
                         /\ swarm_calls[i].addr = get_relayed_addr(boot_nodes, reg.peer)
                    ELSE swarm_calls[i].addr = direct

\* C13 as stated: in server mode a connection accepted from p adds the
\* relayed rewrite for p when relay_dial_mode is set and the send-back
\* address otherwise; a dialed connection adds nothing.
C13_ServerInboundAddsRewritten ==
    (Ended /\ event.type = "ConnectionEstablished" /\ server_mode) =>
        IF ~event.listener THEN kademlia = kad_before
        ELSE IF relay_dial_mode /\ boot_nodes = <<>> THEN TRUE
        ELSE SetOf(kademlia[event.peer]) =
                 SetOf(kad_before[event.peer]) \cup
                 {IF relay_dial_mode THEN get_relayed_addr(boot_nodes, event.peer)
                  ELSE event.addrs[1]}

\* C13: in server mode a connection accepted through a listener from p adds
\* the send-back address to p's entry, whatever relay_dial_mode is; a
\* connection the server dialed adds nothing; nothing else changes.
C13_ServerInboundAddsSendBack ==
    (Ended /\ event.type = "ConnectionEstablished" /\ server_mode) =>
        /\ Returned
        /\ effects = <<>>
        /\ \A o \in Peers \ {event.peer} : kademlia[o] = kad_before[o]
        /\ IF event.listener
           THEN SetOf(kademlia[event.peer]) =
                    SetOf(kad_before[event.peer]) \cup {event.addrs[1]}
           ELSE kademlia = kad_before

C13_Witness ==
    /\ Returned /\ event.type = "ConnectionEstablished"
    /\ server_mode /\ relay_dial_mode
    /\ boot_nodes # <<>>
    /\ event.listener
    /\ kad_before[event.peer] = <<>>
    /\ kademlia[event.peer] = <<event.addrs[1]>>

\* C14: in client mode ConnectionEstablished changes no routing entry, and
\* issues one discover() to the first boot node for a connection the node
\* dialed and none for a connection it accepted.
C14_DiscoverOnOutboundOnly ==
    (Ended /\ event.type = "ConnectionEstablished" /\ ~server_mode) =>
        /\ kademlia = kad_before
        /\ event.listener => effects = <<>>
        /\ (~event.listener /\ boot_nodes # <<>>)
              => effects = <<DiscoverEff(boot_nodes[1].network_id)>>

\* C15 as stated: when NewListenAddr reports the node's own relayed address
\* outside relay-dial mode, the listener that reported it is removed;
\* otherwise none is.
C15_RemovesReportingListener ==
    (Ended /\ event.type = "NewListenAddr") =>
        RemovedListeners = IF ReportsOwnRelayedAddr THEN {event.listener_id} ELSE {}

\* C15: when NewListenAddr reports the node's own relayed address outside
\* relay-dial mode, every other listener recorded in listener_ids is removed
\* and the one that reported the address stays open; when the address
\* differs or the node is in relay-dial mode, no listener is removed.
C15_RemovesOtherListeners ==
    (Ended /\ event.type = "NewListenAddr") =>
        /\ event.listener_id \in listeners
        /\ RemovedListeners = IF ReportsOwnRelayedAddr
                              THEN SetOf(listener_ids) \ {event.listener_id}
                              ELSE {}
        /\ listeners \cap RemovedListeners = {}
        /\ \A i \in 1..Len(swarm_calls) : IsRemoveListener(swarm_calls[i])

C15_Witness ==
    /\ Returned /\ event.type = "NewListenAddr"
    /\ ReportsOwnRelayedAddr
    /\ event.listener_id = "relayed"
    /\ swarm_calls = <<RemoveListenerCall("ipv4")>>
    /\ listeners = {"relayed", "ipv6"}

\* C16: while server_mode is set the routing table never holds a relayed
\* (p2p-circuit) address, whatever relay_dial_mode is, and no listener is
\* open on a relayed address.
C16_ServerNeverRelays ==
    server_mode =>
        /\ \A p \in Peers : \A i \in 1..Len(kademlia[p]) : ~IsRelayedAddr(kademlia[p][i])
        /\ "relayed" \notin listeners

\* C17: in client mode with relay_dial_mode set, every dial toward a peer
\* other than the first boot node, from the handling of Discovered or from
\* load_nodes, targets that peer's relayed address through the first boot
\* node.
C17_RelayModeDialsRelayed ==
    (Ended /\ ~server_mode /\ relay_dial_mode /\ boot_nodes # <<>>) =>
        \A i \in 1..Len(swarm_calls) :
            IsDial(swarm_calls[i]) =>
                \/ \E p \in Peers : swarm_calls[i].addr = get_relayed_addr(boot_nodes, p)
                \/ event.type = "LoadNodes" /\ event.peer = boot_nodes[1].network_id

\* C18: handling OutgoingConnectionError, OutboundFailure or InboundFailure
\* issues no dial and no request, and leaves the routing table, the
\* listeners, listener_ids and rendezvous_cookie as they were.
C18_FailuresOnlyReported ==
    [][event'.type \in FailureEvents =>
          /\ effects' = <<>>
          /\ swarm_calls' = <<>>
          /\ UNCHANGED <<kademlia, listener_ids, listeners, rendezvous_cookie>>]_vars

C18_Witness ==
    /\ Returned /\ event.type = "OutgoingConnectionError"
    /\ boot_nodes # <<>>
    /\ event.peer = boot_nodes[1].network_id
    /\ HasEntry(kademlia, event.peer)
    /\ listener_ids # <<>>
    /\ rendezvous_cookie # <<>>

\* C19: with an empty boot node list no handler and no start-up step
\* panics.
C19_EmptyBootListNoCrash ==
    boot_nodes = <<>> => pc # "panicked"

----------------------------------------------------------------------------
(* Properties of local discovery.                                          *)

\* the peers named by a list of (peer, address) pairs
PeersOf(list) == {list[i].peer : i \in 1..Len(list)}

\* the addresses a list of (peer, address) pairs gives for p
AddrsOf(list, p) == {list[i].address : i \in {j \in 1..Len(list) : list[j].peer = p}}

\* C21: handling MdnsDiscovered under local_discovery adds every discovered
\* peer to the floodsub partial view and every discovered address to the
\* routing table entry of its peer, and nothing else; with local_discovery
\* unset the event changes neither the view nor the routing table.
C21_MdnsDiscoveredAdds ==
    [][(pc = "poll" /\ event'.type = "MdnsDiscovered") =>
          /\ pc' = "handled"
          /\ local_discovery =>
                /\ floodsub' = floodsub \cup PeersOf(event'.discovered)
                /\ \A p \in Peers :
                      SetOf(kademlia'[p]) =
                          SetOf(kademlia[p]) \cup AddrsOf(event'.discovered, p)
          /\ ~local_discovery => (floodsub' = floodsub /\ kademlia' = kademlia)]_vars

C21_Witness ==
    /\ pc = "handled"
    /\ event.type = "MdnsDiscovered"
    /\ local_discovery
    /\ Len(event.discovered) = 2
    /\ PeersOf(event.discovered) = {2, 3}
    /\ floodsub = {2, 3}
    /\ kad_before = [p \in Peers |-> <<>>]
    /\ \A p \in {2, 3} : SetOf(kademlia[p]) = AddrsOf(event.discovered, p)

\* the expired peers that mDNS holds under no address any more
GonePeers(expired_list, nodes) ==
    {p \in PeersOf(expired_list) : ~\E n \in nodes : n.peer = p}

\* C22: handling MdnsExpired removes from the floodsub partial view exactly
\* the expired peers that are no longer in the mDNS discovered set, so a peer
\* still discovered under another address stays; the routing table is left
\* as it was.
C22_MdnsExpiredRemovesGonePeers ==
    [][(pc = "poll" /\ event'.type = "MdnsExpired") =>
          /\ pc' = "handled"
          /\ floodsub' = floodsub \ GonePeers(event'.discovered, mdns'.nodes)
          /\ kademlia' = kademlia]_vars

C22_Witness ==
    /\ pc = "handled"
    /\ event.type = "MdnsExpired"
    /\ \E p \in PeersOf(event.discovered) :
          /\ p \notin GonePeers(event.discovered, mdns.nodes)
          /\ p \in floodsub
          /\ HasEntry(kademlia, p)
    /\ \E q \in GonePeers(event.discovered, mdns.nodes) :
          /\ q \notin floodsub
          /\ HasEntry(kademlia, q)

----------------------------------------------------------------------------
(* Properties of set-up.                                                   *)

\* C23: build_swarm with server_mode unset returns, and its behaviour set has
\* the relay client, DCUtR enabled, the rendezvous client, and mDNS enabled
\* exactly when local_discovery is set.
C23_ClientBehaviourSet ==
    (api_call.op = "build_swarm" /\ ~server_mode) =>
        /\ ~api_result.panicked
        /\ api_result.value = [mdns |-> local_discovery, relay |-> "client",
                               dcutr |-> TRUE, rendezvous |-> "client"]

\* C24: build_swarm with server_mode set returns a behaviour set with the
\* relay server, mDNS disabled whatever local_discovery is, DCUtR disabled
\* and the rendezvous server.
C24_ServerBehaviourSet ==
    (api_call.op = "build_swarm" /\ server_mode) =>
        api_result = Return([mdns |-> FALSE, relay |-> "server",
                             dcutr |-> FALSE, rendezvous |-> "server"])

C24_Witness ==
    /\ api_call.op = "build_swarm"
    /\ server_mode
    /\ local_discovery
    /\ ~api_result.panicked
    /\ api_result.value.relay = "server"

\* a line of the bootstrap file with a peer id and one or two addresses that
\* all parse
WellFormedLine(line) ==
    /\ line.parts = 2
    /\ IsPeerIdStr(line.network_id)
    /\ Len(line.address) \in {1, 2}
    /\ \A i \in 1..Len(line.address) : IsAddrStr(line.address[i])

\* a well-formed line giving an IPv4 address and then an IPv6 one
TwoFamilyLine(line) ==
    /\ WellFormedLine(line)
    /\ Len(line.address) = 2
    /\ Head(line.address[1]) = "ip4"
    /\ Head(line.address[2]) = "ip6"

LoadBootnodesCalled == api_call.op = "load_bootnodes" /\ api_call.args[1]

\* C25: load_bootnodes on a file of one well-formed line returns one boot
\* node: for a line with an IPv4 and an IPv6 address its address is the IPv6
\* one when the probe succeeds and the IPv4 one otherwise; for a line with a
\* single address it is that address whatever the probe returns.
C25_BootNodeAddressByProbe ==
    LET lines == api_call.args[2]
        probes == api_call.args[3]
        line == lines[1]
        picked == IF TwoFamilyLine(line) /\ probes[1]
                  THEN line.address[2] ELSE line.address[1]
    IN (/\ LoadBootnodesCalled
        /\ Len(lines) = 1
        /\ TwoFamilyLine(line) \/ (WellFormedLine(line) /\ Len(line.address) = 1)) =>
           api_result = Return(<<BootNode(PeerIdFromStr(line.network_id),
                                          AddrFromStr(picked))>>)

\* C26: load_bootnodes on a file with a line that is not well formed returns
\* the empty list: it neither panics nor returns the boot nodes of the other
\* lines.
C26_MalformedFailsClosed ==
    LET lines == api_call.args[2]
    IN (LoadBootnodesCalled /\ \E i \in 1..Len(lines) : ~WellFormedLine(lines[i])) =>
           api_result = Return(<<>>)

----------------------------------------------------------------------------
(* Properties of the relayed addresses.                                    *)

\* the string A/p2p/R/p2p-circuit for the first boot node (R, A)
RelayedPrefixStr ==
    AddrToString(boot_nodes[1].multiaddr)
        \o <<"p2p", to_base58(boot_nodes[1].network_id), "p2p-circuit">>

IsRelayedListen(c) == c.op = "listen_on" /\ c.id = "relayed"

\* C27: the address start_listening gets from get_relayed_listening_addr and
\* listens on reads exactly A/p2p/R/p2p-circuit, R and A being the identifier
\* and the address of the first boot node, with no peer component after it.
C27_RelayedListeningAddr ==
    \A i \in 1..Len(swarm_calls) :
        IsRelayedListen(swarm_calls[i]) =>
            AddrToString(swarm_calls[i].addr) = RelayedPrefixStr

C27_Witness ==
    /\ pc = "handled"
    /\ event.type = "StartListening"
    /\ Len(boot_nodes) = 2
    /\ \E i \in 1..Len(swarm_calls) : IsRelayedListen(swarm_calls[i])

\* a client in relay-dial mode has handled Discovered
RelayedDiscovered ==
    /\ Ended
    /\ event.type = "RendezvousDiscovered"
    /\ ~server_mode
    /\ relay_dial_mode

\* C28: the address get_relayed_addr returns for a discovered peer L, which
\* the client dials in relay-dial mode, reads exactly
\* A/p2p/R/p2p-circuit/p2p/L for the first boot node (R, A), the i-th dial
\* being for the i-th discovered peer; and the boot nodes of the
\* configuration stay as they were.
C28_RelayedAddr ==
    /\ [](RelayedDiscovered =>
             \A i \in 1..Len(swarm_calls) :
                 IsDial(swarm_calls[i]) =>
                     AddrToString(swarm_calls[i].addr) =
                         RelayedPrefixStr
                             \o <<"p2p", to_base58(event.discovered[i].peer)>>)
    /\ [][boot_nodes' = boot_nodes]_vars

C28_Witness ==
    /\ RelayedDiscovered
    /\ pc = "handled"
    /\ Len(boot_nodes) = 2
    /\ Len(swarm_calls) = 2
    /\ IsDial(swarm_calls[1]) /\ IsDial(swarm_calls[2])
    /\ event.discovered[1].peer # event.discovered[2].peer

----------------------------------------------------------------------------
(* Properties of the identity.                                             *)

\* C29: from_bytes on bytes that are no secret key (here: of the wrong
\* length) returns the error value InvalidKeyMaterial to its caller: it does
\* not panic and yields no identity.
C29_BadKeyIsAnError ==
    (api_call.op = "from_bytes" /\ Len(api_call.args[1]) # KeyLen) =>
        /\ ~api_result.panicked
        /\ api_result.value = <<"InvalidKeyMaterial">>

\* C30: the identifier depends on the key alone: the identity from_bytes
\* builds from a secret key k has the identifier of the public key of k, and
\* the identity gen_random_id_with_private returns has the identifier of the
\* identity from_bytes rebuilds from the private key returned with it.
C30_IdIsFunctionOfKey ==
    /\ (api_call.op = "from_bytes" /\ ~api_result.panicked) =>
           Network_id(api_result.value) = from_public_key(PublicOf(api_call.args[1]))
    /\ api_call.op = "gen_random_id_with_private" =>
           LET private_key == api_result.value[1]
               network == api_result.value[2]
               rebuilt == from_bytes(private_key)
           IN /\ ~rebuilt.panicked
              /\ Network_id(rebuilt.value) = Network_id(network)

C30_Witness ==
    /\ api_call.op = "gen_random_id_with_private"
    /\ ~api_result.panicked
    /\ Network_id(api_result.value[2])
           = from_public_key(PublicOf(api_result.value[1]))
    /\ PublicOf(api_result.value[1]) # api_result.value[1]

----------------------------------------------------------------------------
(* Properties of error handling and of the mutable configuration.          *)

\* C31: handling RendezvousDiscovered never panics: a dial that cannot be
\* started is passed over and the remaining registrations are still dialed.
C31_DiscoveredNeverCrashes ==
    (event.type = "RendezvousDiscovered" /\ boot_nodes # <<>>) =>
        pc # "panicked"

\* a record with an entry whose peer id or one of whose addresses does not
\* parse
Malformed(record) ==
    \E i \in 1..Len(record) :
        \/ ~IsPeerIdStr(record[i].network_id)
        \/ \E j \in 1..Len(record[i].multiaddr) : ~IsAddrStr(record[i].multiaddr[j])

\* C32: a SendNodeRecord request or a Record response with an entry that is
\* no peer id or no multiaddress is handled without a panic.
C32_MalformedRecordNoCrash ==
    (RecordEvent /\ Malformed(event.msg.record)) => pc # "panicked"

\* C35: listener_ids holds identifiers of active listeners only, each once.
C35_ListenerIdsAreActiveListeners ==
    /\ NoDuplicates(listener_ids)
    /\ SetOf(listener_ids) \subseteq listeners

IsRegisterEff(e) == e.op = "register"

\* C36: with a boot node configured, handling IdentifyReceived returns; in
\* client mode it has issued exactly one register, to the first boot node,
\* and in server mode none.
C36_OneRegisterPerIdentify ==
    (event.type = "IdentifyReceived" /\ boot_nodes # <<>>) =>
        /\ pc # "panicked"
        /\ SelectSeq(effects, IsRegisterEff) =
               IF server_mode THEN <<>> ELSE <<RegisterEff(boot_nodes[1].network_id)>>

\* C33: ConnectionClosed for a peer that still has an established connection
\* leaves the routing entry of that peer in place.
C33_EntryKeptWhileConnected ==
    (event.type = "ConnectionClosed" /\ event.num_established > 0) =>
        kademlia[event.peer] = kad_before[event.peer]

IsDiscoverEff(e) == e.op = "discover"

\* C34: once a cookie is stored, every discover the driver issues passes it.
C34_DiscoverPassesStoredCookie ==
    rendezvous_cookie # <<>> =>
        \A i \in 1..Len(effects) :
            IsDiscoverEff(effects[i]) => effects[i].cookie = rendezvous_cookie

\* The requester of the handled GetNetworkNodes request is found among the
\* non-boot peers of the routing table.
RequesterFound == HasEntry(kad_before, event.peer) /\ event.peer \notin BootIds

GetNetworkNodesHandled ==
    /\ Ended
    /\ event.type = "Request"
    /\ event.msg.kind = "GetNetworkNodes"
    /\ event.call_ok

\* C37 as stated: get_network_record called with a provided requester that is
\* not found among the non-boot peers of the routing table panics.
C37_UnknownRequesterPanics ==
    (GetNetworkNodesHandled /\ ~RequesterFound) => pc = "panicked"

\* C37 amended: get_network_record called with a provided requester returns
\* normally whether or not the requester is found among the non-boot peers;
\* a requester that is not found excludes nothing, so the record lists every
\* non-boot peer of the routing table.
C37_ProvidedRequesterReturns ==
    GetNetworkNodesHandled =>
        /\ pc = "handled"
        /\ Len(ResponsesSent) = 1
        /\ ResponsesSent[1].msg.kind = "Record"
        /\ ~RequesterFound =>
               LET nodes == ResponsesSent[1].msg.record
               IN {nodes[i].network_id : i \in 1..Len(nodes)} =
                      {to_base58(p) : p \in {q \in Peers : /\ HasEntry(kad_before, q)
                                                           /\ q \notin BootIds}}

C37_Witness ==
    /\ GetNetworkNodesHandled
    /\ pc = "handled"
    /\ ~HasEntry(kad_before, event.peer)
    /\ ResponsesSent[1].msg.record # <<>>

\* the (peer, address) pairs a node record carries
RECURSIVE Pairs(_)
Pairs(nodes) ==
    IF nodes = <<>> THEN 0 ELSE Len(Head(nodes).multiaddr) + Pairs(Tail(nodes))

\* how many further messages a message of the protocol can cause: a handler
\* only sends messages of a lower rank than the one it handles
Rank(m) ==
    CASE m.kind = "GetNetworkNodes" -> 3
      [] m.kind \in {"Record", "SendNodeRecord"} -> 2
      [] m.kind = "Ping" -> 1
      [] OTHER -> 0

IsRequestEff(e) == e.op = "send_request"

\* the requests the current handler sent
RequestsSent == SelectSeq(effects, IsRequestEff)

\* C38: the exchange started by a node record quiesces.  Handling a
\* SendNodeRecord request or a Record response sends only Ping requests, at
\* most one per (peer, address) pair of the record; a Ping on an open channel
\* is answered by one Pong and sends no request; a Pong or GotNetworkRecord
\* response sends nothing.  Every message a handler sends has a lower rank
\* than the message it handles, so a chain of messages between nodes running
\* this handler has at most three steps after its first message.
C38_RecordExchangeQuiesces ==
    (Ended /\ event.type \in {"Request", "Response"}) =>
        /\ \A i \in 1..Len(effects) :
               /\ effects[i].op \in {"send_request", "send_response"}
               /\ Rank(effects[i].msg) < Rank(event.msg)
        /\ RecordEvent =>
               /\ \A i \in 1..Len(RequestsSent) : RequestsSent[i].msg = Ping
               /\ Len(RequestsSent) <= Pairs(event.msg.record)
               /\ Returned => Len(RequestsSent) = Pairs(event.msg.record)
        /\ (event.msg.kind = "Ping" /\ event.call_ok) =>
               effects = <<SendResponseEff(Pong)>>
        /\ event.msg.kind \in {"Pong", "GotNetworkRecord"} => effects = <<>>

C38_Witness ==
    /\ Returned
    /\ RecordEvent
    /\ Pairs(event.msg.record) = MaxRecordSize - 1
    /\ Len(RequestsSent) = MaxRecordSize - 1

\* this step adds an address to the routing table, removes one
AddsEntry == \E p \in Peers : SetOf(kademlia'[p]) \ SetOf(kademlia[p]) # {}

RemovesEntry == \E p \in Peers : SetOf(kademlia[p]) \ SetOf(kademlia'[p]) # {}

\* the event this step handles is one the routing table may grow on
AddingEvent ==
    \/ event'.type = "ConnectionEstablished" /\ server_mode /\ event'.listener
    \/ event'.type \in {"IdentifyReceived", "MdnsDiscovered"}
    \/ event'.type = "Request" /\ event'.msg.kind = "SendNodeRecord"
    \/ event'.type = "Response" /\ event'.msg.kind = "Record"

\* the events that are to leave the driver's state alone
OtherEvent ==
    \/ event'.type \in LoggedEvents
    \/ event'.type \in {"Ping", "OutgoingConnectionError", "OutboundFailure",
                        "InboundFailure", "ResponseSent"}
    \/ event'.type = "Request" /\ event'.msg.kind \in {"Ping", "GetNetworkNodes"}
    \/ event'.type = "Response" /\ event'.msg.kind \in {"Pong", "GotNetworkRecord"}

MillisOf(n) ==
    IF n.variant = "Integer"
    THEN [neg |-> FALSE,
          digits |-> IF Len(n.whole) = MillisDigits THEN n.whole ELSE n.whole \o Zeros(3)]
    ELSE LET shifted == Strip(n.whole \o SubSeq(n.frac \o Zeros(3), 1, 3))
         IN [neg |-> n.neg /\ shifted # <<0>>, digits |-> shifted]

\* C40: datetime_from_number gives one instant for a timestamp in each of its
\* forms: the integer n of 13 digits is n milliseconds, the integer n of 10
\* digits and the float n are n * 1000 milliseconds; number_from_datetime
\* returns the whole seconds of the instant as an integer.
C40_TimestampForms ==
    /\ (api_call.op = "datetime_from_number" /\ ~api_result.panicked) =>
           timestamp_millis(api_result.value) = MillisOf(api_call.args[1])
    /\ \A s \in SecondsSamples :
           /\ datetime_from_number(Integer(s)) = datetime_from_number(Integer(s \o Zeros(3)))
           /\ datetime_from_number(Integer(s)) = datetime_from_number(Float(FALSE, s, <<>>))
    /\ api_call.op = "number_from_datetime" =>
           LET seconds == timestamp(api_call.args[1])
           IN /\ api_result.value.variant = "Integer"
              /\ api_result.value.neg = seconds.neg
              /\ api_result.value.whole = seconds.digits

====
